---- MODULE Spec2Model ----
(***************************************************************************)
(* State-machine model of the marketplace backend: the authentication      *)
(* gates, the auth, order, product, shop, admin, chat and notification     *)
(* route handlers, the notification service and the error handler.  Every  *)
(* request is one action (a get-or-create of a chat is two, split at its   *)
(* await); `last` records the request and its response.                    *)
(***************************************************************************)
EXTENDS Integers, Sequences, FiniteSets, TLC

\* ------------------------------------------------------------------ ids
UserIds == {"u1", "u2"}
OwnerIds == {"w1", "w2", "w3"}
AdminIds == {"a1", "a2"}
ShopIds == {"s1", "s2"}
\* the ids a product row can have; SeedProductIds exist from the start and
\* NewProductIds are handed out, in order, to the products created later
SeedProductIds == {"p1", "p2", "p3"}
NewProductIds == <<"p4">>
ProductIds == SeedProductIds \cup {NewProductIds[i] : i \in 1..Len(NewProductIds)}
Roles == {"user", "owner", "admin"}

\* ------------------------------------------------------------------ bounds
MaxOrders == 1
MaxNotifs == 3
MaxItems == 2
MaxQty == 2
MaxMessages == 2
\* the 15 minutes of a verification token, in ticks of the clock, and the
\* last tick
TokenLifetime == 2
MaxClock == 3
MaxOffers == 1
MaxPlaced == 2

\* ------------------------------------------------------------------ tokens
NoToken == [state |-> "absent", role |-> "none", id |-> "none"]
MalformedToken == [state |-> "malformed", role |-> "none", id |-> "none"]

\* signToken: the payload is {id, email, role}; the routes sign a role only
\* together with an id of that role's table.
signToken(id, role) == [state |-> "ok", role |-> role, id |-> id]

IdsOfRole(role) ==
    CASE role = "user" -> UserIds
      [] role = "owner" -> OwnerIds
      [] OTHER -> AdminIds

SignedTokens == UNION {{signToken(id, role) : id \in IdsOfRole(role)} : role \in Roles}

\* a signed token whose signature was altered, or whose 7-day expiry passed
SpoiledTokens ==
    {[signToken("u1", "user") EXCEPT !.state = "tampered"],
     [signToken("w1", "owner") EXCEPT !.state = "expired"],
     [signToken("a1", "admin") EXCEPT !.state = "tampered"],
     [signToken("a1", "admin") EXCEPT !.state = "expired"]}

Tokens == (SignedTokens \ {signToken("a2", "admin")}) \cup SpoiledTokens \cup {MalformedToken}

CookieCreds == {[cookie |-> t, header |-> NoToken] : t \in Tokens}
HeaderCreds ==
    {[cookie |-> NoToken, header |-> t] :
        t \in {signToken("w1", "owner"), MalformedToken}}
BothCreds ==
    {[cookie |-> c, header |-> h] :
        c \in {MalformedToken, signToken("u1", "user")},
        h \in {signToken("a1", "admin"), [signToken("u1", "user") EXCEPT !.state = "expired"]}}
NoCred == [cookie |-> NoToken, header |-> NoToken]
Credentials == CookieCreds \cup HeaderCreds \cup BothCreds \cup {NoCred}

\* ------------------------------------------------------------------ state
VARIABLES
    users,          \* id of each User row -> [wishlist]
    owners,         \* ids of the rows of the Owner table
    approved,       \* owners whose approved flag is true
    products,       \* id of each Product row -> [shopId, price, stock, status]
    orders,         \* sequence of Order rows (the order id is the index)
    notifications,  \* set of Notification rows
    nextNotif,      \* next notification id
    last,           \* the last request and its response
    chats,          \* set of Chat rows
    messages,       \* sequence of Message rows, in the order of their creation
    creating,       \* get-or-create requests between their findUnique and their create
    passwords,      \* email of each User and Owner row -> its password column
    verificationTokens, \* the in-memory map of the password-reset flow
    clock,          \* Date.now()
    resetDone,      \* history: the verification tokens a reset succeeded with
    offers,         \* sequence of Offer rows (the offer id is the index)
    placing,        \* order requests between their stock checks and their writes
    confirming,     \* confirm requests between their status check and their update
    resetting       \* reset requests between their token checks and their writes

\* what the chat and the auth routes add to the state
\* offers and the requests that are between two of their awaits
more == <<offers, placing, confirming, resetting>>
ext == <<chats, messages, creating, passwords, verificationTokens, clock, resetDone, more>>
vars == <<users, owners, approved, products, orders, notifications, nextNotif, last, ext>>
store == <<users, owners, approved, products, orders, notifications>>

admins == AdminIds

\* Shop.ownerId
shopOwner(s) == IF s = "s1" THEN "w1" ELSE "w2"

ownerOfProduct(p) == shopOwner(products[p].shopId)

NoReceipt == "none"
NoTime == 0
Receipts == {"RCP-A", "RCP-B"}
Times == {1, 2}

\* the verification token of the password-reset flow: the base64 text of
\* JSON {id, email, accountType, timestamp}
verificationToken(id, accountType, timestamp) ==
    [id |-> id, accountType |-> accountType, timestamp |-> timestamp]
NoVerification == verificationToken("none", "none", 0)

\* mutant: the Authorization header is looked at before the cookie
extractTokenHeaderFirst(cred) ==
    IF cred.header # NoToken THEN cred.header
    ELSE IF cred.cookie # NoToken THEN cred.cookie
    ELSE NoToken

\* ------------------------------------------------------------------ gates
extractToken(cred) ==
    IF cred.cookie # NoToken THEN cred.cookie
    ELSE IF cred.header # NoToken THEN cred.header
    ELSE NoToken

\* jwt.verify: throws unless the signature and the expiry check out
verifyToken(token) == token.state = "ok"

GateFail(status, error, code) ==
    [pass |-> FALSE, status |-> status, error |-> error, code |-> code, id |-> "none", role |-> "none"]
GatePass(token) ==
    [pass |-> TRUE, status |-> 200, error |-> "", code |-> "", id |-> token.id, role |-> token.role]

authenticate(cred) ==
    LET token == extractToken(cred) IN
    IF token = NoToken THEN GateFail(401, "Authentication required", "")
    ELSE IF ~verifyToken(token) THEN GateFail(401, "Invalid or expired token", "")
    ELSE GatePass(token)

\* mutant: the user gate decodes the token without verifying it
authenticateUserUnverified(cred) ==
    LET token == extractToken(cred) IN
    IF token = NoToken THEN GateFail(401, "Authentication required", "")
    ELSE IF token.role # "user" THEN GateFail(403, "User access required", "")
    ELSE IF token.id \notin DOMAIN users THEN GateFail(401, "User not found", "")
    ELSE GatePass(token)

authenticateUser(cred) ==
    LET token == extractToken(cred) IN
    IF token = NoToken THEN GateFail(401, "Authentication required", "")
    ELSE IF ~verifyToken(token) THEN GateFail(401, "Invalid or expired token", "")
    ELSE IF token.role # "user" THEN GateFail(403, "User access required", "")
    ELSE IF token.id \notin DOMAIN users THEN GateFail(401, "User not found", "")
    ELSE GatePass(token)

\* mutant: the owner gate without the approved check
authenticateOwnerUnapproved(cred) ==
    LET token == extractToken(cred) IN
    IF token = NoToken THEN GateFail(401, "Authentication required", "")
    ELSE IF ~verifyToken(token) THEN GateFail(401, "Invalid or expired token", "")
    ELSE IF token.role # "owner" THEN GateFail(403, "Owner access required", "")
    ELSE IF token.id \notin owners THEN GateFail(401, "Owner not found", "")
    ELSE GatePass(token)

authenticateOwner(cred) ==
    LET token == extractToken(cred) IN
    IF token = NoToken THEN GateFail(401, "Authentication required", "")
    ELSE IF ~verifyToken(token) THEN GateFail(401, "Invalid or expired token", "")
    ELSE IF token.role # "owner" THEN GateFail(403, "Owner access required", "")
    ELSE IF token.id \notin owners THEN GateFail(401, "Owner not found", "")
    ELSE IF token.id \notin approved
        THEN GateFail(403, "Your account is pending approval.", "PENDING_APPROVAL")
    ELSE GatePass(token)

\* mutant: the admin gate loads the account before it compares the role
authenticateAdminAccountFirst(cred) ==
    LET token == extractToken(cred) IN
    IF token = NoToken THEN GateFail(401, "Authentication required", "")
    ELSE IF ~verifyToken(token) THEN GateFail(401, "Invalid or expired token", "")
    ELSE IF token.id \notin admins THEN GateFail(401, "Admin not found", "")
    ELSE IF token.role # "admin" THEN GateFail(403, "Admin access required", "")
    ELSE GatePass(token)

authenticateAdmin(cred) ==
    LET token == extractToken(cred) IN
    IF token = NoToken THEN GateFail(401, "Authentication required", "")
    ELSE IF ~verifyToken(token) THEN GateFail(401, "Invalid or expired token", "")
    ELSE IF token.role # "admin" THEN GateFail(403, "Admin access required", "")
    ELSE IF token.id \notin admins THEN GateFail(401, "Admin not found", "")
    ELSE GatePass(token)

\* ------------------------------------------------------------------ responses
\* an error object passed to next(err): the fields the error handler reads
\* (0 and "" stand for an undefined field)
ErrorObject(name, code, message, statusCode) ==
    [name |-> name, code |-> code, message |-> message, statusCode |-> statusCode]
NoError == ErrorObject("none", "", "", 0)
Response(op, gate, cred, status, error) ==
    [op |-> op, gate |-> gate, cred |-> cred, status |-> status, error |-> error,
     code |-> "", ran |-> TRUE, caller |-> "none", target |-> "none", num |-> 0,
     receiptNumber |-> NoReceipt, products |-> {}, failIdx |-> 0,
     recipients |-> {}, failed |-> {}, value |-> "none",
     chats |-> {}, token |-> NoToken, verificationToken |-> NoVerification,
     password |-> "none", confirmPassword |-> "none", count |-> 0, thrown |-> NoError,
     wishlist |-> <<>>]

\* a gate answered the request itself: next() was not called
Rejected(op, gate, cred, g) ==
    [Response(op, gate, cred, g.status, g.error) EXCEPT !.code = g.code, !.ran = FALSE]

\* the handler ran for the authenticated caller g.id
Handled(op, gate, cred, g, target, status, error) ==
    [Response(op, gate, cred, status, error) EXCEPT !.caller = g.id, !.target = target]

\* the same, for a request about a numbered row (an order, a notification)
HandledN(op, gate, cred, g, num, status, error) ==
    [Response(op, gate, cred, status, error) EXCEPT !.caller = g.id, !.num = num]

\* what Prisma throws for a broken unique key and for a missing row
PrismaError(code) ==
    ErrorObject("PrismaClientKnownRequestError", code,
                IF code = "P2002" THEN "Unique constraint failed on the fields: (orderId)"
                ELSE "An operation failed because it depends on one or more records that were required but not found.",
                0)
\* a plain Error
Error(message) == ErrorObject("Error", "", message, 0)

\* errorHandler: the branches in the order of the code; the default branch
\* answers err.statusCode || 500 with the body err.message || "Internal server error"
errorHandler(err) ==
    CASE err.code = "P2002" -> [status |-> 400, error |-> "A record with this value already exists"]
      [] err.code = "P2025" -> [status |-> 404, error |-> "Record not found"]
      [] err.name = "ValidationError" -> [status |-> 400, error |-> err.message]
      [] err.name = "JsonWebTokenError" -> [status |-> 401, error |-> "Invalid token"]
      [] err.name = "TokenExpiredError" -> [status |-> 401, error |-> "Token expired"]
      [] OTHER -> [status |-> IF err.statusCode # 0 THEN err.statusCode ELSE 500,
                   error |-> IF err.message # "" THEN err.message ELSE "Internal server error"]

\* ------------------------------------------------------------------ notifications
Notification(id, kind, to, title) ==
    [id |-> id, kind |-> kind, to |-> to, title |-> title, isRead |-> FALSE]

\* mutant: every row of a fan-out is addressed to its first recipient
NotifRowsToFirst(seq, kind, title, firstId) ==
    {Notification(firstId + i - 1, kind, Head(seq), title) : i \in 1..Len(seq)}

\* rows created by writing one notification per element of `tos`, ids in
\* increasing order of the recipients' position in `seq`
RECURSIVE NotifRows(_, _, _, _)
NotifRows(seq, kind, title, firstId) ==
    IF seq = <<>> THEN {}
    ELSE {Notification(firstId, kind, Head(seq), title)}
         \cup NotifRows(Tail(seq), kind, title, firstId + 1)

HasRoom(n) == nextNotif + n <= MaxNotifs + 1

NotificationsOf(kind, id) == {n \in notifications : n.kind = kind /\ n.to = id}

\* ------------------------------------------------------------------ passwords
\* the email column is the unique key of the auth routes; a row of the model
\* has its id for email, and NewOwnerEmails are the emails nobody has
\* registered yet
NewOwnerEmails == {"w4"}
Emails == UserIds \cup OwnerIds \cup NewOwnerEmails
Passwords == {"password123", "secret456"}
NoPassword == <<"none">>

\* bcrypt: the stored column is not the password, and compare re-derives it
hashPassword(password) == <<"bcrypt", password>>
comparePassword(password, hash) == hash = hashPassword(password)

\* the wishlist column holds what was written to it: the seed writes the
\* text JSON.stringify([]), the toggle route writes an array
JSONstringify(array) == [type |-> "string", value |-> array]
Array(array) == [type |-> "array", value |-> array]

\* a stored wishlist read as the route reads it: a string is parsed, anything
\* that is not an array afterwards counts as the empty list
parseWishlist(wishlist) ==
    IF wishlist.type \in {"string", "array"} THEN wishlist.value ELSE <<>>

\* ------------------------------------------------------------------ init
\* The seeded database: two approved owners would hide the approval gate, so
\* as in the seed one owner with a shop is still pending; w3 has no shop.
Init ==
    /\ users = [u \in UserIds |-> [wishlist |-> JSONstringify(<<>>)]]
    /\ owners = OwnerIds
    /\ approved = {"w1"}
    /\ products =
         [p \in SeedProductIds |->
            CASE p = "p1" -> [shopId |-> "s1", price |-> 10, stock |-> 2, status |-> "approved"]
              [] p = "p2" -> [shopId |-> "s2", price |-> 5, stock |-> 1, status |-> "pending"]
              [] OTHER -> [shopId |-> "s1", price |-> 7, stock |-> 1, status |-> "rejected"]]
    /\ orders = <<>>
    /\ notifications = {}
    /\ nextNotif = 1
    /\ last = Response("init", "none", NoCred, 0, "")
    /\ chats = {}
    /\ messages = <<>>
    /\ creating = {}
    /\ passwords = [e \in Emails |-> IF e \in UserIds \cup OwnerIds THEN hashPassword("password123") ELSE NoPassword]
    /\ verificationTokens = <<>>
    /\ clock = 0
    /\ resetDone = {}
    /\ offers = <<>>
    /\ placing = {}
    /\ confirming = {}
    /\ resetting = {}

\* ------------------------------------------------------------------ accounts
\* GET /api/auth/me
GetMe(cred) ==
    LET g == authenticate(cred) IN
    /\ UNCHANGED ext
    /\ UNCHANGED <<store, nextNotif>>
    /\ IF ~g.pass THEN last' = Rejected("me", "any", cred, g)
       ELSE LET table == CASE g.role = "user" -> DOMAIN users
                           [] g.role = "owner" -> owners
                           [] OTHER -> admins
            IN
            IF g.role = "owner" /\ g.id \in owners /\ g.id \notin approved
            THEN last' = [Handled("me", "any", cred, g, g.id, 403,
                                  "Your account is pending approval.")
                            EXCEPT !.code = "PENDING_APPROVAL"]
            ELSE IF g.id \notin table
            THEN last' = Handled("me", "any", cred, g, g.id, 404, "User not found")
            ELSE last' = Handled("me", "any", cred, g, g.id, 200, "")

\* DELETE /api/admin/users/:id.  What the delete does to the rows that
\* reference the user is decided by the relations of the Prisma schema; the
\* action is taken for users that no order and no notification references.
DeleteUser(cred, id) ==
    LET g == authenticateAdmin(cred) IN
    /\ UNCHANGED ext
    /\ \A i \in 1..Len(orders) : orders[i].userId # id
    /\ NotificationsOf("user", id) = {}
    /\ UNCHANGED <<owners, approved, products, orders, notifications, nextNotif>>
    /\ IF ~g.pass THEN /\ last' = Rejected("deleteUser", "admin", cred, g)
                       /\ UNCHANGED users
       ELSE IF id \notin DOMAIN users
       THEN LET e == errorHandler(PrismaError("P2025")) IN
            /\ last' = Handled("deleteUser", "admin", cred, g, id, e.status, e.error)
            /\ UNCHANGED users
       ELSE /\ users' = [u \in DOMAIN users \ {id} |-> users[u]]
            /\ last' = Handled("deleteUser", "admin", cred, g, id, 200, "")

\* DELETE /api/admin/owners/:id, for owners that no shop and no notification
\* references
DeleteOwner(cred, id) ==
    LET g == authenticateAdmin(cred) IN
    /\ UNCHANGED ext
    /\ \A sh \in ShopIds : shopOwner(sh) # id
    /\ NotificationsOf("owner", id) = {}
    /\ UNCHANGED <<users, products, orders, notifications, nextNotif>>
    /\ IF ~g.pass THEN /\ last' = Rejected("deleteOwner", "admin", cred, g)
                       /\ UNCHANGED <<owners, approved>>
       ELSE IF id \notin owners
       THEN LET e == errorHandler(PrismaError("P2025")) IN
            /\ last' = Handled("deleteOwner", "admin", cred, g, id, e.status, e.error)
            /\ UNCHANGED <<owners, approved>>
       ELSE /\ owners' = owners \ {id}
            /\ approved' = approved \ {id}
            /\ last' = Handled("deleteOwner", "admin", cred, g, id, 200, "")

\* notifyUser / notifyOwner / notifyAdmin: one create, a failure is logged
\* and swallowed.  `fails` is the set of recipients whose write fails.
notifyOwner(ownerId, title, fails) ==
    IF ownerId \in fails THEN {} ELSE {Notification(nextNotif, "owner", ownerId, title)}

notifyUser(userId, title, fails) ==
    IF userId \in fails THEN {} ELSE {Notification(nextNotif, "user", userId, title)}

notifyOwnerApproved(ownerId, isApproved, fails) ==
    notifyOwner(ownerId, IF isApproved THEN "Account Approved!" ELSE "Account Status Changed", fails)

\* PUT /api/admin/owners/:id/approve
ApproveOwner(cred, id, fails) ==
    LET g == authenticateAdmin(cred) IN
    /\ UNCHANGED ext
    /\ HasRoom(1)
    /\ UNCHANGED <<users, owners, products, orders>>
    /\ IF ~g.pass THEN /\ last' = Rejected("approveOwner", "admin", cred, g)
                       /\ UNCHANGED <<approved, notifications, nextNotif>>
       ELSE IF id \notin owners
       THEN LET e == errorHandler(PrismaError("P2025")) IN
            /\ last' = Handled("approveOwner", "admin", cred, g, id, e.status, e.error)
            /\ UNCHANGED <<approved, notifications, nextNotif>>
       ELSE LET rows == notifyOwnerApproved(id, TRUE, fails) IN
            /\ approved' = approved \cup {id}
            /\ notifications' = notifications \cup rows
            /\ nextNotif' = nextNotif + Cardinality(rows)
            /\ last' = [Handled("approveOwner", "admin", cred, g, id, 200, "")
                          EXCEPT !.recipients = {id}, !.failed = {id} \cap fails]


\* ------------------------------------------------------------------ orders
LineItems == [productId : ProductIds, quantity : 1..MaxQty]
ItemLists == UNION {[1..n -> LineItems] : n \in 0..MaxItems}
\* one-line requests, for the specifications that are not about order creation
ShortItemLists == {<<li>> : li \in [productId : SeedProductIds, quantity : {1}]}

\* express-validator: body("items").isArray({min: 1})
validateOrder(items) == Len(items) >= 1

\* the first loop of POST /api/orders: index of the first line that returns
\* early, 0 when every line passes
ItemMissing(item) == item.productId \notin DOMAIN products
\* mutant: the stock of a line is not compared with its quantity
ItemNeverShort(item) == FALSE

ItemShort(item) == products[item.productId].stock < item.quantity
FirstBadItem(items) ==
    LET bad == {i \in 1..Len(items) : ItemMissing(items[i]) \/ ItemShort(items[i])}
    IN IF bad = {} THEN 0 ELSE CHOOSE i \in bad : \A j \in bad : i <= j

\* orderItems: product id, quantity and the product's price at this moment
orderItems(items) ==
    [i \in 1..Len(items) |->
        [productId |-> items[i].productId, quantity |-> items[i].quantity,
         price |-> products[items[i].productId].price]]

RECURSIVE orderTotal(_)
orderTotal(items) ==
    IF items = <<>> THEN 0
    ELSE products[Head(items).productId].price * Head(items).quantity + orderTotal(Tail(items))

\* the decrements of the second loop, one update per line
RECURSIVE QuantityOf(_, _)
QuantityOf(items, p) ==
    IF items = <<>> THEN 0
    ELSE (IF Head(items).productId = p THEN Head(items).quantity ELSE 0) + QuantityOf(Tail(items), p)

decrementStock(items) ==
    [p \in DOMAIN products |-> [products[p] EXCEPT !.stock = @ - QuantityOf(items, p)]]

\* mutant: one recipient per line item, the owner of several items repeated
RECURSIVE shopOwnerIdsPerItem(_, _)
shopOwnerIdsPerItem(items, seen) ==
    IF items = <<>> THEN <<>>
    ELSE <<ownerOfProduct(Head(items).productId)>> \o shopOwnerIdsPerItem(Tail(items), seen)

\* shopOwnerIds: a Set filled in item order, so distinct and insertion-ordered
RECURSIVE shopOwnerIds(_, _)
shopOwnerIds(items, seen) ==
    IF items = <<>> THEN <<>>
    ELSE LET o == ownerOfProduct(Head(items).productId) IN
         IF o \in seen THEN shopOwnerIds(Tail(items), seen)
         ELSE <<o>> \o shopOwnerIds(Tail(items), seen \cup {o})

Range(seq) == {seq[i] : i \in 1..Len(seq)}

\* recipients whose write goes through when each write is tried and a failed
\* one is swallowed (notifyOwner / notifyUser)
Delivered(recipients, fails) == SelectSeq(recipients, LAMBDA r : r \notin fails)

\* recipients written before an unguarded prisma.notification.create throws
FirstFailure(recipients, fails) ==
    LET bad == {i \in 1..Len(recipients) : recipients[i] \in fails}
    IN IF bad = {} THEN 0 ELSE CHOOSE i \in bad : \A j \in bad : i <= j
WrittenBeforeThrow(recipients, fails) ==
    LET k == FirstFailure(recipients, fails)
    IN IF k = 0 THEN recipients ELSE SubSeq(recipients, 1, k - 1)

notifyOrderCreated(recipients, fails) ==
    NotifRows(Delivered(recipients, fails), "owner", "New Order Received", nextNotif)

\* POST /api/orders
CreateOrder(cred, items, fails) ==
    LET g == authenticateUser(cred)
        bad == FirstBadItem(items)
    IN
    /\ UNCHANGED ext
    /\ UNCHANGED <<users, owners, approved>>
    /\ IF ~g.pass
       THEN /\ last' = Rejected("createOrder", "user", cred, g)
            /\ UNCHANGED <<products, orders, notifications, nextNotif>>
       ELSE IF ~validateOrder(items)
       THEN /\ last' = Handled("createOrder", "user", cred, g, "none", 400, "Validation failed")
            /\ UNCHANGED <<products, orders, notifications, nextNotif>>
       ELSE IF bad # 0
       THEN /\ last' = [Handled("createOrder", "user", cred, g, "none",
                                IF ItemMissing(items[bad]) THEN 404 ELSE 400,
                                IF ItemMissing(items[bad]) THEN "Product not found"
                                                           ELSE "Insufficient stock")
                          EXCEPT !.failIdx = bad]
            /\ UNCHANGED <<products, orders, notifications, nextNotif>>
       ELSE LET recipients == shopOwnerIds(items, {})
                rows == notifyOrderCreated(recipients, fails)
            IN
            /\ Len(orders) < MaxOrders
            /\ HasRoom(Len(recipients))
            /\ orders' = Append(orders,
                   [userId |-> g.id, total |-> orderTotal(items), items |-> orderItems(items),
                    status |-> "pending", receiptNumber |-> NoReceipt, completedAt |-> NoTime])
            /\ products' = decrementStock(items)
            /\ notifications' = notifications \cup rows
            /\ nextNotif' = nextNotif + Cardinality(rows)
            /\ last' = [HandledN("createOrder", "user", cred, g, Len(orders) + 1, 201, "")
                          EXCEPT !.recipients = Range(recipients),
                                 !.failed = Range(recipients) \cap fails]

\* POST /api/orders up to the end of its first loop: the gate, the validator
\* and the stock check of every line have passed and the handler is about to
\* await prisma.order.create; until then nothing has been written
BeginOrder(cred, items) ==
    LET g == authenticateUser(cred)
        bad == FirstBadItem(items)
    IN
    /\ UNCHANGED <<store, nextNotif>>
    /\ UNCHANGED <<chats, messages, creating, passwords, verificationTokens, clock, resetDone>>
    /\ UNCHANGED <<offers, confirming, resetting>>
    /\ IF ~g.pass
       THEN /\ last' = Rejected("createOrder", "user", cred, g)
            /\ UNCHANGED placing
       ELSE IF ~validateOrder(items)
       THEN /\ last' = Handled("createOrder", "user", cred, g, "none", 400, "Validation failed")
            /\ UNCHANGED placing
       ELSE IF bad # 0
       THEN /\ last' = [Handled("createOrder", "user", cred, g, "none",
                                IF ItemMissing(items[bad]) THEN 404 ELSE 400,
                                IF ItemMissing(items[bad]) THEN "Product not found"
                                                           ELSE "Insufficient stock")
                          EXCEPT !.failIdx = bad]
            /\ UNCHANGED placing
       ELSE /\ placing' = placing \cup
                   {[cred |-> cred, lines |-> items, total |-> orderTotal(items),
                     items |-> orderItems(items)]}
            /\ UNCHANGED last

\* the rest of the handler for a request that passed its checks: the order
\* row with the total and the prices read by the first loop, one decrement
\* per line, the notifications, the response
FinishOrder(req, fails) ==
    LET g == GatePass(extractToken(req.cred))
        recipients == shopOwnerIds(req.lines, {})
        rows == notifyOrderCreated(recipients, fails)
    IN
    /\ req \in placing
    /\ UNCHANGED <<users, owners, approved>>
    /\ UNCHANGED <<chats, messages, creating, passwords, verificationTokens, clock, resetDone>>
    /\ UNCHANGED <<offers, confirming, resetting>>
    /\ Len(orders) < MaxPlaced
    /\ HasRoom(Len(recipients))
    /\ placing' = placing \ {req}
    /\ orders' = Append(orders,
           [userId |-> g.id, total |-> req.total, items |-> req.items,
            status |-> "pending", receiptNumber |-> NoReceipt, completedAt |-> NoTime])
    /\ products' = decrementStock(req.lines)
    /\ notifications' = notifications \cup rows
    /\ nextNotif' = nextNotif + Cardinality(rows)
    /\ last' = [HandledN("createOrder", "user", req.cred, g, Len(orders) + 1, 201, "")
                  EXCEPT !.recipients = Range(recipients),
                         !.failed = Range(recipients) \cap fails]

\* mutant: every owner counts as a supplier of the order
ownsAnyProduct(order, ownerId) == TRUE

ownsProduct(order, ownerId) ==
    \E i \in 1..Len(order.items) : ownerOfProduct(order.items[i].productId) = ownerId

\* mutant: the validator of the status route also lets completed through
validateStatusWithCompleted(status) ==
    status \in {"pending", "processing", "shipped", "delivered", "cancelled", "completed"}

\* mutant: the validator does not let an order go back to pending
validateStatusActive(status) ==
    status \in {"processing", "shipped", "delivered", "cancelled"}

\* body("status").isIn([...]) of PUT /api/orders/:id/status
validateStatus(status) ==
    status \in {"pending", "processing", "shipped", "delivered", "cancelled"}

\* the title is "Order " followed by the new status with a capital initial
notifyOrderStatusChanged(order, newStatus, fails) ==
    notifyUser(order.userId,
               CASE newStatus = "pending" -> "Order Pending"
                 [] newStatus = "processing" -> "Order Processing"
                 [] newStatus = "shipped" -> "Order Shipped"
                 [] newStatus = "delivered" -> "Order Delivered"
                 [] OTHER -> "Order Cancelled",
               fails)

\* PUT /api/orders/:id/status
UpdateOrderStatus(cred, id, status, fails) ==
    LET g == authenticateOwner(cred) IN
    /\ UNCHANGED ext
    /\ UNCHANGED <<users, owners, approved, products>>
    /\ IF ~g.pass
       THEN /\ last' = Rejected("updateOrderStatus", "owner", cred, g)
            /\ UNCHANGED <<orders, notifications, nextNotif>>
       ELSE IF ~validateStatus(status)
       THEN /\ last' = [HandledN("updateOrderStatus", "owner", cred, g, id, 400,
                                "Validation failed") EXCEPT !.value = status]
            /\ UNCHANGED <<orders, notifications, nextNotif>>
       ELSE IF id \notin 1..Len(orders)
       THEN /\ last' = [HandledN("updateOrderStatus", "owner", cred, g, id, 404,
                                "Order not found") EXCEPT !.value = status]
            /\ UNCHANGED <<orders, notifications, nextNotif>>
       ELSE IF ~ownsProduct(orders[id], g.id)
       THEN /\ last' = [HandledN("updateOrderStatus", "owner", cred, g, id, 403,
                                "Access denied") EXCEPT !.value = status]
            /\ UNCHANGED <<orders, notifications, nextNotif>>
       ELSE LET rows == notifyOrderStatusChanged(orders[id], status, fails) IN
            /\ HasRoom(1)
            /\ orders' = [orders EXCEPT ![id].status = status]
            /\ notifications' = notifications \cup rows
            /\ nextNotif' = nextNotif + Cardinality(rows)
            /\ last' = [HandledN("updateOrderStatus", "owner", cred, g, id, 200, "")
                          EXCEPT !.value = status,
                                 !.recipients = {orders[id].userId},
                                 !.failed = {orders[id].userId} \cap fails]

\* mutant: an order of any status can be cancelled
canCancelAnyStatus(order) == TRUE

\* the status check of the cancel handler
canCancel(order) == order.status = "pending"

\* PUT /api/orders/:id/cancel
CancelOrder(cred, id) ==
    LET g == authenticateUser(cred) IN
    /\ UNCHANGED ext
    /\ UNCHANGED <<users, owners, approved, products, notifications, nextNotif>>
    /\ IF ~g.pass
       THEN /\ last' = Rejected("cancelOrder", "user", cred, g)
            /\ UNCHANGED orders
       ELSE IF id \notin 1..Len(orders)
       THEN /\ last' = HandledN("cancelOrder", "user", cred, g, id, 404, "Order not found")
            /\ UNCHANGED orders
       ELSE IF orders[id].userId # g.id
       THEN /\ last' = HandledN("cancelOrder", "user", cred, g, id, 403, "Access denied")
            /\ UNCHANGED orders
       ELSE IF ~canCancel(orders[id])
       THEN /\ last' = HandledN("cancelOrder", "user", cred, g, id, 400,
                               "Only pending orders can be cancelled")
            /\ UNCHANGED orders
       ELSE /\ orders' = [orders EXCEPT ![id].status = "cancelled"]
            /\ last' = HandledN("cancelOrder", "user", cred, g, id, 200, "")

\* mutant: an order of any status can be confirmed
canConfirmAnyStatus(order) == TRUE

\* the status check of the confirm handler
canConfirm(order) == order.status = "delivered"

\* PUT /api/orders/:id/confirm
ConfirmOrder(cred, id, receiptNumber, now, fails) ==
    LET g == authenticateUser(cred) IN
    /\ UNCHANGED ext
    /\ UNCHANGED <<users, owners, approved, products>>
    /\ IF ~g.pass
       THEN /\ last' = Rejected("confirmOrder", "user", cred, g)
            /\ UNCHANGED <<orders, notifications, nextNotif>>
       ELSE IF id \notin 1..Len(orders)
       THEN /\ last' = HandledN("confirmOrder", "user", cred, g, id, 404, "Order not found")
            /\ UNCHANGED <<orders, notifications, nextNotif>>
       ELSE IF orders[id].userId # g.id
       THEN /\ last' = HandledN("confirmOrder", "user", cred, g, id, 403, "Access denied")
            /\ UNCHANGED <<orders, notifications, nextNotif>>
       ELSE IF ~canConfirm(orders[id])
       THEN /\ last' = HandledN("confirmOrder", "user", cred, g, id, 400,
                               "Can only confirm delivered orders")
            /\ UNCHANGED <<orders, notifications, nextNotif>>
       ELSE IF orders[id].receiptNumber # NoReceipt
       THEN /\ last' = [HandledN("confirmOrder", "user", cred, g, id, 400,
                                "Order has already been confirmed")
                          EXCEPT !.receiptNumber = orders[id].receiptNumber]
            /\ UNCHANGED <<orders, notifications, nextNotif>>
       ELSE LET recipients == shopOwnerIds(orders[id].items, {})
                written == WrittenBeforeThrow(recipients, fails)
                rows == NotifRows(written, "owner", "Order Completed", nextNotif)
                e == errorHandler(Error("notification write failed"))
            IN
            /\ HasRoom(Len(recipients))
            /\ orders' = [orders EXCEPT ![id].receiptNumber = receiptNumber,
                                        ![id].completedAt = now,
                                        ![id].status = "completed"]
            /\ notifications' = notifications \cup rows
            /\ nextNotif' = nextNotif + Cardinality(rows)
            /\ last' = IF FirstFailure(recipients, fails) # 0
                       THEN [HandledN("confirmOrder", "user", cred, g, id, e.status, e.error)
                               EXCEPT !.recipients = Range(recipients),
                                      !.failed = Range(recipients) \cap fails]
                       ELSE [HandledN("confirmOrder", "user", cred, g, id, 200, "")
                               EXCEPT !.receiptNumber = receiptNumber,
                                      !.recipients = Range(recipients)]


\* PUT /api/orders/:id/confirm up to its checks: the order row was read and
\* found delivered, the caller's own and without a receipt number, and the
\* handler is about to await prisma.order.update.  `n` tells apart the
\* requests of one caller for one order
BeginConfirm(cred, id, n) ==
    LET g == authenticateUser(cred) IN
    /\ UNCHANGED <<store, nextNotif>>
    /\ UNCHANGED <<chats, messages, creating, passwords, verificationTokens, clock, resetDone>>
    /\ UNCHANGED <<offers, placing, resetting>>
    /\ IF ~g.pass
       THEN /\ last' = Rejected("confirmOrder", "user", cred, g)
            /\ UNCHANGED confirming
       ELSE IF id \notin 1..Len(orders)
       THEN /\ last' = HandledN("confirmOrder", "user", cred, g, id, 404, "Order not found")
            /\ UNCHANGED confirming
       ELSE IF orders[id].userId # g.id
       THEN /\ last' = HandledN("confirmOrder", "user", cred, g, id, 403, "Access denied")
            /\ UNCHANGED confirming
       ELSE IF ~canConfirm(orders[id])
       THEN /\ last' = HandledN("confirmOrder", "user", cred, g, id, 400,
                               "Can only confirm delivered orders")
            /\ UNCHANGED confirming
       ELSE IF orders[id].receiptNumber # NoReceipt
       THEN /\ last' = [HandledN("confirmOrder", "user", cred, g, id, 400,
                                "Order has already been confirmed")
                          EXCEPT !.receiptNumber = orders[id].receiptNumber]
            /\ UNCHANGED confirming
       ELSE /\ confirming' = confirming \cup {[cred |-> cred, id |-> id, n |-> n]}
            /\ UNCHANGED last

\* the rest of the confirm handler for a request that passed its checks:
\* the update by id, whatever the row holds by now, the notifications of
\* the owners, the response
FinishConfirm(req, receiptNumber, now, fails) ==
    LET g == GatePass(extractToken(req.cred))
        id == req.id
        recipients == shopOwnerIds(orders[id].items, {})
        written == WrittenBeforeThrow(recipients, fails)
        rows == NotifRows(written, "owner", "Order Completed", nextNotif)
        e == errorHandler(Error("notification write failed"))
    IN
    /\ req \in confirming
    /\ UNCHANGED <<users, owners, approved, products>>
    /\ UNCHANGED <<chats, messages, creating, passwords, verificationTokens, clock, resetDone>>
    /\ UNCHANGED <<offers, placing, resetting>>
    /\ HasRoom(Len(recipients))
    /\ confirming' = confirming \ {req}
    /\ orders' = [orders EXCEPT ![id].receiptNumber = receiptNumber,
                                ![id].completedAt = now,
                                ![id].status = "completed"]
    /\ notifications' = notifications \cup rows
    /\ nextNotif' = nextNotif + Cardinality(rows)
    /\ last' = IF FirstFailure(recipients, fails) # 0
               THEN [HandledN("confirmOrder", "user", req.cred, g, id, e.status, e.error)
                       EXCEPT !.recipients = Range(recipients),
                              !.failed = Range(recipients) \cap fails]
               ELSE [HandledN("confirmOrder", "user", req.cred, g, id, 200, "")
                       EXCEPT !.receiptNumber = receiptNumber,
                              !.recipients = Range(recipients)]

\* ------------------------------------------------------------------ notification routes
NotifIds == 1..MaxNotifs

NotificationById(id) == {n \in notifications : n.id = id}

markRead(id) == {IF n.id = id THEN [n EXCEPT !.isRead = TRUE] ELSE n : n \in notifications}

\* mutant: every notification counts as the caller's own
addressedToAnyone(n, kind, id) == TRUE

\* the ownership check: notification.userId (ownerId, adminId) === req.user.id
addressedTo(n, kind, id) == n.kind = kind /\ n.to = id

\* the handler shared, copy for copy, by the three notification routers:
\* `kind` is the column compared with req.user.id
MarkReadHandler(op, kind, cred, g, id) ==
    IF ~g.pass
    THEN /\ last' = Rejected(op, kind, cred, g)
         /\ UNCHANGED notifications
    ELSE IF NotificationById(id) = {}
    THEN /\ last' = HandledN(op, kind, cred, g, id, 404, "Notification not found")
         /\ UNCHANGED notifications
    ELSE IF \A n \in NotificationById(id) : ~addressedTo(n, kind, g.id)
    THEN /\ last' = HandledN(op, kind, cred, g, id, 403, "Access denied")
         /\ UNCHANGED notifications
    ELSE /\ notifications' = markRead(id)
         /\ last' = HandledN(op, kind, cred, g, id, 200, "")

DeleteNotificationHandler(op, kind, cred, g, id) ==
    IF ~g.pass
    THEN /\ last' = Rejected(op, kind, cred, g)
         /\ UNCHANGED notifications
    ELSE IF NotificationById(id) = {}
    THEN /\ last' = HandledN(op, kind, cred, g, id, 404, "Notification not found")
         /\ UNCHANGED notifications
    ELSE IF \A n \in NotificationById(id) : ~addressedTo(n, kind, g.id)
    THEN /\ last' = HandledN(op, kind, cred, g, id, 403, "Access denied")
         /\ UNCHANGED notifications
    ELSE /\ notifications' = notifications \ NotificationById(id)
         /\ last' = HandledN(op, kind, cred, g, id, 200, "")

\* PUT /api/notifications/:id/read
UserMarkRead(cred, id) ==
    /\ UNCHANGED <<users, owners, approved, products, orders, nextNotif, ext>>
    /\ MarkReadHandler("markRead", "user", cred, authenticateUser(cred), id)

\* DELETE /api/notifications/:id
UserDeleteNotification(cred, id) ==
    /\ UNCHANGED <<users, owners, approved, products, orders, nextNotif, ext>>
    /\ DeleteNotificationHandler("deleteNotification", "user", cred, authenticateUser(cred), id)

\* the path segment after /api/notifications/ of a DELETE request: the id
\* of a row, or a literal word (no row has a word for its generated id)
IdSegment(id) == [literal |-> "", id |-> id]
LiteralSegment(text) == [literal |-> text, id |-> 0]

\* the DELETE routes of the user notification router, in the order in which
\* they are registered
UserNotificationDeleteRoutes == <<"/:id", "/clear-all">>

\* Express path matching for one segment: a parameter matches any segment
routeMatches(pattern, segment) ==
    \/ pattern = "/:id"
    \/ segment.literal # "" /\ pattern = "/" \o segment.literal

\* the router hands the request to the first registered route that matches;
\* these handlers answer without calling next()
firstMatch(routes, segment) ==
    LET hits == {i \in 1..Len(routes) : routeMatches(routes[i], segment)} IN
    IF hits = {} THEN "none"
    ELSE routes[CHOOSE i \in hits : \A j \in hits : i <= j]

\* the handler registered for DELETE /clear-all: deleteMany where userId
ClearAllHandler(op, cred, g) ==
    IF ~g.pass
    THEN /\ last' = Rejected(op, "user", cred, g)
         /\ UNCHANGED notifications
    ELSE /\ notifications' = notifications \ NotificationsOf("user", g.id)
         /\ last' = [Handled(op, "user", cred, g, "none", 200, "")
                       EXCEPT !.value = "All notifications cleared"]

\* DELETE /api/notifications/<segment> as the router dispatches it
UserNotificationsDelete(cred, segment) ==
    LET g == authenticateUser(cred)
        route == firstMatch(UserNotificationDeleteRoutes, segment)
        op == IF segment.literal = "" THEN "deleteNotification"
              ELSE "DELETE /api/notifications/" \o segment.literal
    IN
    /\ UNCHANGED <<users, owners, approved, products, orders, nextNotif, ext>>
    /\ IF route = "/:id"
       THEN DeleteNotificationHandler(op, "user", cred, g, segment.id)
       ELSE ClearAllHandler(op, cred, g)

\* PUT /api/owner/notifications/:id/read
OwnerMarkRead(cred, id) ==
    /\ UNCHANGED <<users, owners, approved, products, orders, nextNotif, ext>>
    /\ MarkReadHandler("markRead", "owner", cred, authenticateOwner(cred), id)

\* DELETE /api/owner/notifications/:id
OwnerDeleteNotification(cred, id) ==
    /\ UNCHANGED <<users, owners, approved, products, orders, nextNotif, ext>>
    /\ DeleteNotificationHandler("deleteNotification", "owner", cred, authenticateOwner(cred), id)

\* PUT /api/admin/notifications/:id/read
AdminMarkRead(cred, id) ==
    /\ UNCHANGED <<users, owners, approved, products, orders, nextNotif, ext>>
    /\ MarkReadHandler("markRead", "admin", cred, authenticateAdmin(cred), id)

\* DELETE /api/admin/notifications/:id
AdminDeleteNotification(cred, id) ==
    /\ UNCHANGED <<users, owners, approved, products, orders, nextNotif, ext>>
    /\ DeleteNotificationHandler("deleteNotification", "admin", cred, authenticateAdmin(cred), id)


\* ------------------------------------------------------------------ products
\* PUT /api/admin/products/:id/approve and /reject: the update, then an
\* unguarded prisma.notification.create for the owner of the product's shop
ModerateProduct(op, status, title, cred, id, fails) ==
    LET g == authenticateAdmin(cred) IN
    /\ UNCHANGED ext
    /\ UNCHANGED <<users, owners, approved, orders>>
    /\ IF ~g.pass
       THEN /\ last' = Rejected(op, "admin", cred, g)
            /\ UNCHANGED <<products, notifications, nextNotif>>
       ELSE IF id \notin DOMAIN products
       THEN LET e == errorHandler(PrismaError("P2025")) IN
            /\ last' = Handled(op, "admin", cred, g, id, e.status, e.error)
            /\ UNCHANGED <<products, notifications, nextNotif>>
       ELSE LET recipients == <<ownerOfProduct(id)>>
                written == WrittenBeforeThrow(recipients, fails)
                rows == NotifRows(written, "owner", title, nextNotif)
                e == errorHandler(Error("notification write failed"))
            IN
            /\ HasRoom(1)
            /\ products' = [products EXCEPT ![id].status = status]
            /\ notifications' = notifications \cup rows
            /\ nextNotif' = nextNotif + Cardinality(rows)
            /\ last' = IF FirstFailure(recipients, fails) # 0
                       THEN [Handled(op, "admin", cred, g, id, e.status, e.error)
                               EXCEPT !.recipients = Range(recipients),
                                      !.failed = Range(recipients) \cap fails]
                       ELSE [Handled(op, "admin", cred, g, id, 200, "")
                               EXCEPT !.recipients = Range(recipients)]

ApproveProduct(cred, id, fails) ==
    ModerateProduct("approveProduct", "approved", "Product Approved", cred, id, fails)

RejectProduct(cred, id, fails) ==
    ModerateProduct("rejectProduct", "rejected", "Product Rejected", cred, id, fails)

\* mutant: every owner counts as the owner of the shop
ownsAnyShop(shopId, ownerId) == TRUE

\* the ownership check of the product routes: shop.ownerId === req.user.id
ownsShop(shopId, ownerId) == shopOwner(shopId) = ownerId

\* the id the store gives the next product row (ids are never reused)
FreshProductIds == {i \in 1..Len(NewProductIds) : NewProductIds[i] \notin DOMAIN products}

\* POST /api/products: `adminOrder` is the order in which admin.findMany
\* returns the admins (no orderBy is given)
CreateProduct(cred, shopId, price, stock, adminOrder, fails) ==
    LET g == authenticateOwner(cred) IN
    /\ UNCHANGED ext
    /\ UNCHANGED <<users, owners, approved, orders>>
    /\ IF ~g.pass
       THEN /\ last' = Rejected("createProduct", "owner", cred, g)
            /\ UNCHANGED <<products, notifications, nextNotif>>
       ELSE IF shopId \notin ShopIds
       THEN /\ last' = Handled("createProduct", "owner", cred, g, shopId, 404, "Shop not found")
            /\ UNCHANGED <<products, notifications, nextNotif>>
       ELSE IF ~ownsShop(shopId, g.id)
       THEN /\ last' = Handled("createProduct", "owner", cred, g, shopId, 403,
                               "You do not own this shop")
            /\ UNCHANGED <<products, notifications, nextNotif>>
       ELSE LET written == WrittenBeforeThrow(adminOrder, fails)
                rows == NotifRows(written, "admin", "New Product Pending Approval", nextNotif)
                e == errorHandler(Error("notification write failed"))
            IN
            /\ FreshProductIds # {}
            /\ HasRoom(Len(adminOrder))
            /\ LET id == NewProductIds[CHOOSE i \in FreshProductIds : \A j \in FreshProductIds : i <= j]
               IN
               /\ products' = [p \in DOMAIN products \cup {id} |->
                                 IF p = id
                                 THEN [shopId |-> shopId, price |-> price, stock |-> stock,
                                       status |-> "pending"]
                                 ELSE products[p]]
               /\ last' = IF FirstFailure(adminOrder, fails) # 0
                          THEN [Handled("createProduct", "owner", cred, g, id, e.status, e.error)
                                  EXCEPT !.recipients = Range(adminOrder),
                                         !.failed = Range(adminOrder) \cap fails]
                          ELSE [Handled("createProduct", "owner", cred, g, id, 201, "")
                                  EXCEPT !.recipients = Range(adminOrder)]
            /\ notifications' = notifications \cup rows
            /\ nextNotif' = nextNotif + Cardinality(rows)

AdminOrders == {<<"a1", "a2">>, <<"a2", "a1">>}

\* ------------------------------------------------------------------ public routes
PublicRead(op, cred, target, status, returned) ==
    /\ UNCHANGED ext
    /\ UNCHANGED <<store, nextNotif>>
    /\ last' = [Response(op, "none", cred, status, "") EXCEPT !.target = target, !.products = returned]

\* GET /api/products (where.status = "approved", narrowed by the filters)
ListProducts(cred, shopId) ==
    PublicRead("listProducts", cred, shopId, 200,
               {p \in DOMAIN products :
                    /\ products[p].status = "approved"
                    /\ shopId # "any" => products[p].shopId = shopId})

\* product ids that appear in some order item
OrderedProducts ==
    UNION {{orders[i].items[j].productId : j \in 1..Len(orders[i].items)} : i \in 1..Len(orders)}

\* GET /api/products/home/bestsellers
Bestsellers(cred) ==
    PublicRead("bestsellers", cred, "none", 200,
               {p \in OrderedProducts \cap DOMAIN products : products[p].status = "approved"})

\* GET /api/products/:id
GetProduct(cred, id) ==
    IF id \notin DOMAIN products \/ products[id].status # "approved"
    THEN PublicRead("getProduct", cred, id, 404, {})
    ELSE PublicRead("getProduct", cred, id, 200, {id})

\* GET /api/shops/:id
GetShop(cred, id) ==
    IF id \notin ShopIds
    THEN PublicRead("getShop", cred, id, 404, {})
    ELSE PublicRead("getShop", cred, id, 200,
                    {p \in DOMAIN products :
                        products[p].shopId = id /\ products[p].status = "approved"})

\* GET /api/seed/data
SeedData(cred) ==
    PublicRead("seedData", cred, "none", 200, DOMAIN products)



\* ------------------------------------------------------------------ wishlist, product update
\* a toggle that never removes
toggleAppendOnly(currentWishlist, productId) == Append(currentWishlist, productId)

\* includes / filter / spread: remove every occurrence when present, else
\* append at the end
toggleWishlist(currentWishlist, productId) ==
    IF productId \in Range(currentWishlist)
    THEN SelectSeq(currentWishlist, LAMBDA id : id # productId)
    ELSE Append(currentWishlist, productId)

\* PUT /api/users/wishlist
ToggleWishlist(cred, productId) ==
    LET g == authenticateUser(cred) IN
    /\ UNCHANGED ext
    /\ UNCHANGED <<owners, approved, products, orders, notifications, nextNotif>>
    /\ IF ~g.pass
       THEN /\ last' = Rejected("toggleWishlist", "user", cred, g)
            /\ UNCHANGED users
       ELSE LET currentWishlist == parseWishlist(users[g.id].wishlist)
                newWishlist == toggleWishlist(currentWishlist, productId)
            IN
            /\ users' = [users EXCEPT ![g.id].wishlist = Array(newWishlist)]
            /\ last' = [Handled("toggleWishlist", "user", cred, g, productId, 200, "")
                          EXCEPT !.wishlist = newWishlist]

\* a field the request body leaves out (Prisma skips undefined)
Undefined == -1

\* an update that also rewrites the price kept on the order lines
UpdateProductAndReprice(cred, id, price, stock) ==
    LET g == authenticateOwner(cred)
        reprice(order) ==
            [order EXCEPT !.items =
                [i \in 1..Len(order.items) |->
                    IF order.items[i].productId = id /\ price # Undefined
                    THEN [order.items[i] EXCEPT !.price = price]
                    ELSE order.items[i]]]
    IN
    /\ UNCHANGED ext
    /\ UNCHANGED <<users, owners, approved, notifications, nextNotif>>
    /\ IF g.pass /\ id \in DOMAIN products /\ ownsShop(products[id].shopId, g.id)
       THEN /\ products' = [products EXCEPT
                              ![id].price = IF price = Undefined THEN @ ELSE price,
                              ![id].stock = IF stock = Undefined THEN @ ELSE stock]
            /\ orders' = [o \in 1..Len(orders) |-> reprice(orders[o])]
            /\ last' = Handled("updateProduct", "owner", cred, g, id, 200, "")
       ELSE /\ last' = Rejected("updateProduct", "owner", cred, g)
            /\ UNCHANGED <<products, orders>>

\* PUT /api/products/:id
UpdateProduct(cred, id, price, stock) ==
    LET g == authenticateOwner(cred) IN
    /\ UNCHANGED ext
    /\ UNCHANGED <<users, owners, approved, orders, notifications, nextNotif>>
    /\ IF ~g.pass
       THEN /\ last' = Rejected("updateProduct", "owner", cred, g)
            /\ UNCHANGED products
       ELSE IF id \notin DOMAIN products
       THEN /\ last' = Handled("updateProduct", "owner", cred, g, id, 404, "Product not found")
            /\ UNCHANGED products
       ELSE IF ~ownsShop(products[id].shopId, g.id)
       THEN /\ last' = Handled("updateProduct", "owner", cred, g, id, 403,
                               "You do not own this product")
            /\ UNCHANGED products
       ELSE /\ products' = [products EXCEPT
                              ![id].price = IF price = Undefined THEN @ ELSE price,
                              ![id].stock = IF stock = Undefined THEN @ ELSE stock]
            /\ last' = Handled("updateProduct", "owner", cred, g, id, 200, "")

\* DELETE /api/products/:id.  What the delete does to the order items that
\* reference the product is decided by the relations of the Prisma schema;
\* the action is taken for products that no order item references.
DeleteProduct(cred, id) ==
    LET g == authenticateOwner(cred) IN
    /\ UNCHANGED ext
    /\ id \notin OrderedProducts
    /\ UNCHANGED <<users, owners, approved, orders, notifications, nextNotif>>
    /\ IF ~g.pass
       THEN /\ last' = Rejected("deleteProduct", "owner", cred, g)
            /\ UNCHANGED products
       ELSE IF id \notin DOMAIN products
       THEN /\ last' = Handled("deleteProduct", "owner", cred, g, id, 404, "Product not found")
            /\ UNCHANGED products
       ELSE IF ~ownsShop(products[id].shopId, g.id)
       THEN /\ last' = Handled("deleteProduct", "owner", cred, g, id, 403,
                               "You do not own this product")
            /\ UNCHANGED products
       ELSE /\ products' = [p \in DOMAIN products \ {id} |-> products[p]]
            /\ last' = Handled("deleteProduct", "owner", cred, g, id, 200, "")

\* ------------------------------------------------------------------ chats
Chat(id, orderId, userId, ownerId) ==
    [id |-> id, orderId |-> orderId, userId |-> userId, ownerId |-> ownerId]
Message(chatId, senderType, sender) ==
    [chatId |-> chatId, senderType |-> senderType, sender |-> sender, isRead |-> FALSE]

ChatById(id) == {c \in chats : c.id = id}
ChatOfOrder(orderId) == {c \in chats : c.orderId = orderId}

\* the column of a chat that the routes of one role compare with req.user.id
participant(chat, kind) == IF kind = "user" THEN chat.userId ELSE chat.ownerId
ChatsOf(kind, id) == {c \in chats : participant(c, kind) = id}

\* mutant: Chat.orderId is not a unique key
orderIdAlwaysAvailable(orderId) == TRUE

\* Chat.orderId is a unique key (the routes look a chat up with
\* findUnique({where: {orderId}})): prisma.chat.create throws P2002 while a
\* chat of the order exists
orderIdAvailable(orderId) == ChatOfOrder(orderId) = {}

\* a get-or-create request whose findUnique found no chat: what it will create
Creating(op, kind, cred, g, orderId, userId, ownerId) ==
    [op |-> op, kind |-> kind, cred |-> cred, g |-> g,
     orderId |-> orderId, userId |-> userId, ownerId |-> ownerId]

\* the part of both get-or-create handlers from findUnique to the await of
\* prisma.chat.create
FindChat(op, kind, cred, g, orderId, userId, ownerId) ==
    IF ChatOfOrder(orderId) # {}
    THEN /\ last' = [HandledN(op, kind, cred, g, orderId, 200, "")
                       EXCEPT !.chats = {c.id : c \in ChatOfOrder(orderId)}]
         /\ UNCHANGED creating
    ELSE /\ creating' = creating \cup {Creating(op, kind, cred, g, orderId, userId, ownerId)}
         /\ UNCHANGED last

\* GET /api/chats/order/:orderId, up to the await of prisma.chat.create
UserChatOfOrder(cred, orderId) ==
    LET g == authenticateUser(cred)
        op == "chatOfOrder"
    IN
    /\ UNCHANGED <<store, nextNotif, more, chats, messages, passwords, verificationTokens,
                   clock, resetDone>>
    /\ IF ~g.pass
       THEN /\ last' = Rejected(op, "user", cred, g)
            /\ UNCHANGED creating
       ELSE IF orderId \notin 1..Len(orders)
       THEN /\ last' = HandledN(op, "user", cred, g, orderId, 404, "Order not found")
            /\ UNCHANGED creating
       ELSE IF orders[orderId].userId # g.id
       THEN /\ last' = HandledN(op, "user", cred, g, orderId, 403, "Access denied")
            /\ UNCHANGED creating
       ELSE IF Len(orders[orderId].items) = 0
       THEN /\ last' = HandledN(op, "user", cred, g, orderId, 400,
                                "Could not find shop owner for this order")
            /\ UNCHANGED creating
       ELSE FindChat(op, "user", cred, g, orderId, g.id,
                     ownerOfProduct(orders[orderId].items[1].productId))

\* GET /api/owner/chats/order/:orderId, up to the await of prisma.chat.create
OwnerChatOfOrder(cred, orderId) ==
    LET g == authenticateOwner(cred)
        op == "chatOfOrder"
    IN
    /\ UNCHANGED <<store, nextNotif, more, chats, messages, passwords, verificationTokens,
                   clock, resetDone>>
    /\ IF ~g.pass
       THEN /\ last' = Rejected(op, "owner", cred, g)
            /\ UNCHANGED creating
       ELSE IF orderId \notin 1..Len(orders)
       THEN /\ last' = HandledN(op, "owner", cred, g, orderId, 404, "Order not found")
            /\ UNCHANGED creating
       ELSE IF ~ownsProduct(orders[orderId], g.id)
       THEN /\ last' = HandledN(op, "owner", cred, g, orderId, 403, "Access denied")
            /\ UNCHANGED creating
       ELSE FindChat(op, "owner", cred, g, orderId, orders[orderId].userId, g.id)

\* the rest of a get-or-create request: prisma.chat.create and the response
CreateChat(req) ==
    /\ req \in creating
    /\ creating' = creating \ {req}
    /\ UNCHANGED <<store, nextNotif, more, messages, passwords, verificationTokens, clock, resetDone>>
    /\ IF ~orderIdAvailable(req.orderId)
       THEN LET e == errorHandler(PrismaError("P2002")) IN
            /\ last' = HandledN(req.op, req.kind, req.cred, req.g, req.orderId,
                                e.status, e.error)
            /\ UNCHANGED chats
       ELSE LET id == Cardinality(chats) + 1 IN
            /\ chats' = chats \cup {Chat(id, req.orderId, req.userId, req.ownerId)}
            /\ last' = [HandledN(req.op, req.kind, req.cred, req.g, req.orderId, 200, "")
                          EXCEPT !.chats = {id}]

ChatGate(kind, cred) == IF kind = "user" THEN authenticateUser(cred) ELSE authenticateOwner(cred)
OtherKind(kind) == IF kind = "user" THEN "owner" ELSE "user"

\* unread messages of a chat that the other side sent
Unread(kind, chatIds) ==
    {i \in 1..Len(messages) :
        /\ messages[i].chatId \in chatIds
        /\ messages[i].senderType = OtherKind(kind)
        /\ ~messages[i].isRead}

\* GET /api/chats and GET /api/owner/chats: findMany where the caller's column
\* is req.user.id (the owner route adds an unread count per chat it found)
ListChats(kind, cred) ==
    LET g == ChatGate(kind, cred) IN
    /\ UNCHANGED <<store, nextNotif, ext>>
    /\ IF ~g.pass THEN last' = Rejected("listChats", kind, cred, g)
       ELSE last' = [Handled("listChats", kind, cred, g, "none", 200, "")
                       EXCEPT !.chats = {c.id : c \in ChatsOf(kind, g.id)},
                              !.count = IF kind = "owner"
                                        THEN Cardinality(Unread(kind, {c.id : c \in ChatsOf(kind, g.id)}))
                                        ELSE 0]

\* GET /api/chats/:id/messages and GET /api/owner/chats/:id/messages: the
\* messages of the chat, and updateMany marks the other side's as read
GetMessages(kind, cred, id) ==
    LET g == ChatGate(kind, cred) IN
    /\ UNCHANGED <<store, nextNotif, more, chats, creating, passwords, verificationTokens,
                   clock, resetDone>>
    /\ IF ~g.pass
       THEN /\ last' = Rejected("getMessages", kind, cred, g)
            /\ UNCHANGED messages
       ELSE IF ChatById(id) = {} \/ \A c \in ChatById(id) : participant(c, kind) # g.id
       THEN /\ last' = HandledN("getMessages", kind, cred, g, id, 403, "Access denied")
            /\ UNCHANGED messages
       ELSE /\ messages' = [i \in 1..Len(messages) |->
                              IF i \in Unread(kind, {id})
                              THEN [messages[i] EXCEPT !.isRead = TRUE] ELSE messages[i]]
            /\ last' = [HandledN("getMessages", kind, cred, g, id, 200, "")
                          EXCEPT !.chats = {id},
                                 !.count = Cardinality({i \in 1..Len(messages) :
                                                           messages[i].chatId = id})]

\* body("content").trim().notEmpty()
Contents == {"", " ", "hello"}
trim(content) == IF content = " " THEN "" ELSE content
validateContent(content) == trim(content) # ""

\* POST /api/chats/:id/messages and POST /api/owner/chats/:id/messages (the
\* update of chat.updatedAt only orders the listing)
SendMessage(kind, cred, id, content) ==
    LET g == ChatGate(kind, cred) IN
    /\ Len(messages) < MaxMessages
    /\ UNCHANGED <<store, nextNotif, more, chats, creating, passwords, verificationTokens,
                   clock, resetDone>>
    /\ IF ~g.pass
       THEN /\ last' = Rejected("sendMessage", kind, cred, g)
            /\ UNCHANGED messages
       ELSE IF ~validateContent(content)
       THEN /\ last' = HandledN("sendMessage", kind, cred, g, id, 400, "Validation failed")
            /\ UNCHANGED messages
       ELSE IF ChatById(id) = {} \/ \A c \in ChatById(id) : participant(c, kind) # g.id
       THEN /\ last' = HandledN("sendMessage", kind, cred, g, id, 403, "Access denied")
            /\ UNCHANGED messages
       ELSE /\ messages' = Append(messages, Message(id, kind, g.id))
            /\ last' = [HandledN("sendMessage", kind, cred, g, id, 201, "")
                          EXCEPT !.chats = {id}]

\* GET /api/chats/unread/count and GET /api/owner/chats/unread/count
UnreadCount(kind, cred) ==
    LET g == ChatGate(kind, cred) IN
    /\ UNCHANGED <<store, nextNotif, ext>>
    /\ IF ~g.pass THEN last' = Rejected("unreadCount", kind, cred, g)
       ELSE LET counted == Unread(kind, {c.id : c \in ChatsOf(kind, g.id)}) IN
            last' = [Handled("unreadCount", kind, cred, g, "none", 200, "")
                       EXCEPT !.chats = {messages[i].chatId : i \in counted},
                              !.count = Cardinality(counted)]

\* ------------------------------------------------------------------ auth routes
\* the approved column of a created Owner row when the create does not pass
\* it: the default of the schema
approvedDefault == FALSE

\* body("password").isLength({min: 6}) and body("password").notEmpty()
validatePassword(password) == Len(password) >= 6
notEmpty(text) == text # ""

\* POST /api/auth/register/owner
RegisterOwner(email, password) ==
    /\ UNCHANGED <<users, products, orders, notifications, nextNotif, more, chats, messages,
                   creating, verificationTokens, clock, resetDone>>
    /\ IF ~validatePassword(password)
       THEN /\ last' = [Response("registerOwner", "none", NoCred, 400, "Validation failed")
                          EXCEPT !.target = email, !.password = password]
            /\ UNCHANGED <<owners, approved, passwords>>
       ELSE IF email \in owners
       THEN /\ last' = [Response("registerOwner", "none", NoCred, 400, "Email already registered")
                          EXCEPT !.target = email, !.password = password]
            /\ UNCHANGED <<owners, approved, passwords>>
       ELSE /\ owners' = owners \cup {email}
            /\ approved' = IF approvedDefault THEN approved \cup {email} ELSE approved \ {email}
            /\ passwords' = [passwords EXCEPT ![email] = hashPassword(password)]
            /\ last' = [Response("registerOwner", "none", NoCred, 201, "")
                          EXCEPT !.target = email, !.password = password,
                                 !.token = IF email \in approved'
                                           THEN signToken(email, "owner") ELSE NoToken]

\* mutant: the login does not look at the approved column
ownerApprovedAlways(email) == TRUE

\* owner.approved
ownerApproved(email) == email \in approved

\* POST /api/auth/login/owner
LoginOwner(email, password) ==
    /\ UNCHANGED <<store, nextNotif, ext>>
    /\ IF ~notEmpty(password)
       THEN last' = [Response("loginOwner", "none", NoCred, 400, "Validation failed")
                       EXCEPT !.target = email, !.password = password]
       ELSE IF email \notin owners \/ ~comparePassword(password, passwords[email])
       THEN last' = [Response("loginOwner", "none", NoCred, 401, "Invalid email or password")
                       EXCEPT !.target = email, !.password = password]
       ELSE IF ~ownerApproved(email)
       THEN last' = [Response("loginOwner", "none", NoCred, 403,
                              "Your business is pending approval. Please wait for admin approval before logging in.")
                       EXCEPT !.target = email, !.password = password,
                              !.code = "PENDING_APPROVAL"]
       ELSE last' = [Response("loginOwner", "none", NoCred, 200, "")
                       EXCEPT !.target = email, !.password = password,
                              !.token = signToken(email, "owner")]

\* the columns the verify route compares with the request
firstNameOf(id) == IF id = "u1" THEN "John" ELSE "Jane"
lastNameOf(id) == IF id = "u1" THEN "Doe" ELSE "Smith"
phoneOf(id) == IF id \in {"u1", "w1"} THEN "+1234567890" ELSE "+1234567891"
businessNameOf(id) == IF id = "w1" THEN "Tech Haven" ELSE "Fashion Hub"

\* String.prototype.toLowerCase and String.prototype.includes, on the
\* strings of this model
toLowerCase(text) ==
    CASE text \in {"John", "JOHN"} -> "john"
      [] text = "Jane" -> "jane"
      [] text = "Doe" -> "doe"
      [] text = "Tech" -> "tech"
      [] text = "Tech Haven" -> "tech haven"
      [] text = "Fashion Hub" -> "fashion hub"
      [] OTHER -> text
includes(text, part) ==
    \/ part = text
    \/ text = "tech haven" /\ part \in {"tech", "haven"}
    \/ text = "fashion hub" /\ part \in {"fashion", "hub"}

\* the user branch and the owner branch of the comparison (a business name
\* that equals "first last" contains the first name, so fullNameMatch adds
\* no case to the owner branch)
detailsMatch(accountType, id, details) ==
    IF accountType = "user"
    THEN /\ toLowerCase(firstNameOf(id)) = toLowerCase(details.firstName)
         /\ toLowerCase(lastNameOf(id)) = toLowerCase(details.lastName)
         /\ phoneOf(id) = details.contactNumber
    ELSE /\ \/ includes(toLowerCase(businessNameOf(id)), toLowerCase(details.firstName))
            \/ includes(toLowerCase(businessNameOf(id)), toLowerCase(details.lastName))
         /\ phoneOf(id) = details.contactNumber

AccountTypes == {"user", "owner"}
accountExists(accountType, email) ==
    IF accountType = "user" THEN email \in DOMAIN users ELSE email \in owners

\* Map.set and Map.delete
MapSet(map, key, value) ==
    [k \in DOMAIN map \cup {key} |-> IF k = key THEN value ELSE map[k]]
MapDelete(map, key) == [k \in DOMAIN map \ {key} |-> map[k]]

\* POST /api/auth/forgot-password/verify
ForgotPasswordVerify(accountType, email, details) ==
    LET token == verificationToken(email, accountType, clock) IN
    /\ UNCHANGED <<store, nextNotif, more, chats, messages, creating, passwords, clock, resetDone>>
    /\ IF \/ accountType \notin AccountTypes
          \/ ~notEmpty(details.firstName) \/ ~notEmpty(details.lastName)
          \/ ~notEmpty(details.contactNumber)
       THEN /\ last' = [Response("forgotPasswordVerify", "none", NoCred, 400, "Validation failed")
                          EXCEPT !.target = email, !.value = accountType]
            /\ UNCHANGED verificationTokens
       ELSE IF ~accountExists(accountType, email)
       THEN /\ last' = [Response("forgotPasswordVerify", "none", NoCred, 404,
                                 "No account found with this email address")
                          EXCEPT !.target = email, !.value = accountType]
            /\ UNCHANGED verificationTokens
       ELSE IF ~detailsMatch(accountType, email, details)
       THEN /\ last' = [Response("forgotPasswordVerify", "none", NoCred, 400,
                                 "The information you provided does not match our records")
                          EXCEPT !.target = email, !.value = accountType]
            /\ UNCHANGED verificationTokens
       ELSE /\ verificationTokens' =
                  MapSet(verificationTokens, token,
                         [accountId |-> email, accountType |-> accountType, email |-> email,
                          expiresAt |-> clock + TokenLifetime])
            /\ last' = [Response("forgotPasswordVerify", "none", NoCred, 200, "")
                          EXCEPT !.target = email, !.value = accountType,
                                 !.verificationToken = token]

\* mutant: the expiry of a token is not looked at
tokenNeverExpired(tokenData) == FALSE

\* Date.now() > tokenData.expiresAt
tokenExpired(tokenData) == clock > tokenData.expiresAt

\* what the reset route answers when it changes no password
ResetRefused(accountType, email, token, newPassword, confirmPassword, status, error) ==
    /\ last' = [Response("forgotPasswordReset", "none", NoCred, status, error)
                  EXCEPT !.target = email, !.value = accountType,
                         !.verificationToken = token, !.password = newPassword,
                         !.confirmPassword = confirmPassword]
    /\ UNCHANGED <<passwords, clock, resetDone>>

\* POST /api/auth/forgot-password/reset.  The successful branch awaits the
\* bcrypt hash and the update of the row before it deletes the token: the
\* requests handled after it read a later Date.now().
ForgotPasswordReset(accountType, email, token, newPassword, confirmPassword) ==
    /\ UNCHANGED <<store, nextNotif, more, chats, messages, creating>>
    /\ IF \/ accountType \notin AccountTypes \/ token = NoVerification
          \/ ~validatePassword(newPassword) \/ ~notEmpty(confirmPassword)
       THEN /\ ResetRefused(accountType, email, token, newPassword, confirmPassword,
                            400, "Validation failed")
            /\ UNCHANGED verificationTokens
       ELSE IF newPassword # confirmPassword
       THEN /\ ResetRefused(accountType, email, token, newPassword, confirmPassword,
                            400, "Passwords do not match")
            /\ UNCHANGED verificationTokens
       ELSE IF token \notin DOMAIN verificationTokens
       THEN /\ ResetRefused(accountType, email, token, newPassword, confirmPassword, 400,
                            "Invalid or expired verification token. Please verify your identity again.")
            /\ UNCHANGED verificationTokens
       ELSE IF tokenExpired(verificationTokens[token])
       THEN /\ ResetRefused(accountType, email, token, newPassword, confirmPassword, 400,
                            "Verification token has expired. Please verify your identity again.")
            /\ verificationTokens' = MapDelete(verificationTokens, token)
       ELSE IF \/ verificationTokens[token].email # email
               \/ verificationTokens[token].accountType # accountType
       THEN /\ ResetRefused(accountType, email, token, newPassword, confirmPassword, 400,
                            "Token does not match the account information")
            /\ UNCHANGED verificationTokens
       ELSE IF ~accountExists(accountType, verificationTokens[token].accountId)
       THEN LET e == errorHandler(PrismaError("P2025")) IN
            /\ ResetRefused(accountType, email, token, newPassword, confirmPassword,
                            e.status, e.error)
            /\ UNCHANGED verificationTokens
       ELSE /\ clock < MaxClock
            /\ passwords' = [passwords EXCEPT ![verificationTokens[token].accountId] =
                                                  hashPassword(newPassword)]
            /\ verificationTokens' = MapDelete(verificationTokens, token)
            /\ clock' = clock + 1
            /\ resetDone' = resetDone \cup {token}
            /\ last' = [Response("forgotPasswordReset", "none", NoCred, 200, "")
                          EXCEPT !.target = email, !.value = accountType,
                                 !.verificationToken = token, !.password = newPassword,
                                 !.confirmPassword = confirmPassword]

\* POST /api/auth/forgot-password/reset up to its first await: the validator
\* and the checks on the token run without a pause, then the handler waits
\* for the bcrypt hash with the token still in the map.  `n` tells apart
\* requests with the same body
BeginReset(accountType, email, token, newPassword, confirmPassword, n) ==
    /\ UNCHANGED <<store, nextNotif, chats, messages, creating>>
    /\ UNCHANGED <<offers, placing, confirming>>
    /\ IF \/ accountType \notin AccountTypes \/ token = NoVerification
          \/ ~validatePassword(newPassword) \/ ~notEmpty(confirmPassword)
       THEN /\ ResetRefused(accountType, email, token, newPassword, confirmPassword,
                            400, "Validation failed")
            /\ UNCHANGED <<verificationTokens, resetting>>
       ELSE IF newPassword # confirmPassword
       THEN /\ ResetRefused(accountType, email, token, newPassword, confirmPassword,
                            400, "Passwords do not match")
            /\ UNCHANGED <<verificationTokens, resetting>>
       ELSE IF token \notin DOMAIN verificationTokens
       THEN /\ ResetRefused(accountType, email, token, newPassword, confirmPassword, 400,
                            "Invalid or expired verification token. Please verify your identity again.")
            /\ UNCHANGED <<verificationTokens, resetting>>
       ELSE IF tokenExpired(verificationTokens[token])
       THEN /\ ResetRefused(accountType, email, token, newPassword, confirmPassword, 400,
                            "Verification token has expired. Please verify your identity again.")
            /\ verificationTokens' = MapDelete(verificationTokens, token)
            /\ UNCHANGED resetting
       ELSE IF \/ verificationTokens[token].email # email
               \/ verificationTokens[token].accountType # accountType
       THEN /\ ResetRefused(accountType, email, token, newPassword, confirmPassword, 400,
                            "Token does not match the account information")
            /\ UNCHANGED <<verificationTokens, resetting>>
       ELSE /\ resetting' = resetting \cup
                   {[accountType |-> accountType, email |-> email, token |-> token,
                     newPassword |-> newPassword, n |-> n,
                     accountId |-> verificationTokens[token].accountId]}
            /\ UNCHANGED <<verificationTokens, passwords, clock, resetDone, last>>

\* the rest of the reset handler for a request that passed its checks: the
\* update of the row, the delete of the token (a no-op when it is gone
\* already), the response
FinishReset(req) ==
    /\ req \in resetting
    /\ UNCHANGED <<store, nextNotif, chats, messages, creating>>
    /\ UNCHANGED <<offers, placing, confirming>>
    /\ resetting' = resetting \ {req}
    /\ IF ~accountExists(req.accountType, req.accountId)
       THEN LET e == errorHandler(PrismaError("P2025")) IN
            /\ ResetRefused(req.accountType, req.email, req.token, req.newPassword,
                            req.newPassword, e.status, e.error)
            /\ UNCHANGED verificationTokens
       ELSE /\ clock < MaxClock
            /\ passwords' = [passwords EXCEPT ![req.accountId] = hashPassword(req.newPassword)]
            /\ verificationTokens' = MapDelete(verificationTokens, req.token)
            /\ clock' = clock + 1
            /\ resetDone' = resetDone \cup {req.token}
            /\ last' = [Response("forgotPasswordReset", "none", NoCred, 200, "")
                          EXCEPT !.target = req.email, !.value = req.accountType,
                                 !.verificationToken = req.token,
                                 !.password = req.newPassword,
                                 !.confirmPassword = req.newPassword,
                                 !.num = req.n]

\* time passes
Tick ==
    /\ clock < MaxClock
    /\ clock' = clock + 1
    /\ UNCHANGED <<store, nextNotif, more, last, chats, messages, creating, passwords,
                   verificationTokens, resetDone>>

\* ------------------------------------------------------------------ errors
\* the error objects a handler's catch block passes to next(error): Prisma
\* errors with and without a code, jwt errors, errors of the body parser
\* (which carry a statusCode) and plain errors
ErrorNames ==
    {"Error", "SyntaxError", "ValidationError", "JsonWebTokenError", "TokenExpiredError",
     "PrismaClientKnownRequestError", "PrismaClientValidationError"}
ErrorCodes == {"", "P2002", "P2025", "P2003", "ECONNREFUSED"}
ErrorMessages ==
    {"", "connect ECONNREFUSED 127.0.0.1:5432",
     "Invalid prisma.order.update() invocation: Unknown argument"}
StatusCodes == {0, 400, 413}
Errors ==
    {ErrorObject(name, code, message, statusCode) :
        name \in ErrorNames, code \in ErrorCodes, message \in ErrorMessages,
        statusCode \in StatusCodes}

\* a request whose handler ends in next(err): the error handler answers it
FailingRequest(err) ==
    LET e == errorHandler(err) IN
    /\ UNCHANGED <<store, nextNotif, ext>>
    /\ last' = [Response("failingRequest", "none", NoCred, e.status, e.error)
                  EXCEPT !.thrown = err]

\* ------------------------------------------------------------------ offers
\* the type column of the seeded products; the modelled product update leaves
\* it alone (type is undefined in its body)
productType(id) == IF id = "p3" THEN "Buying" ELSE "Selling"

\* the status a new Offer row gets: the create call passes none
offerStatusDefault == "pending"

notifyOfferReceived(offer, shopOwnerId, fails) == notifyOwner(shopOwnerId, "New Sell Offer", fails)

\* POST /api/offers
CreateOffer(cred, productId, fails) ==
    LET g == authenticateUser(cred) IN
    /\ UNCHANGED <<users, owners, approved, products, orders>>
    /\ UNCHANGED <<chats, messages, creating, passwords, verificationTokens, clock, resetDone>>
    /\ UNCHANGED <<placing, confirming, resetting>>
    /\ IF ~g.pass
       THEN /\ last' = Rejected("createOffer", "user", cred, g)
            /\ UNCHANGED <<offers, notifications, nextNotif>>
       ELSE IF productId \notin DOMAIN products
       THEN /\ last' = Handled("createOffer", "user", cred, g, productId, 404, "Product not found")
            /\ UNCHANGED <<offers, notifications, nextNotif>>
       ELSE IF productType(productId) # "Buying"
       THEN /\ last' = Handled("createOffer", "user", cred, g, productId, 400,
                               "This product is not available for selling offers")
            /\ UNCHANGED <<offers, notifications, nextNotif>>
       ELSE LET offer == [userId |-> g.id, productId |-> productId,
                          status |-> offerStatusDefault]
                rows == notifyOfferReceived(offer, shopOwner(products[productId].shopId), fails)
            IN
            /\ Len(offers) < MaxOffers
            /\ HasRoom(1)
            /\ offers' = Append(offers, offer)
            /\ notifications' = notifications \cup rows
            /\ nextNotif' = nextNotif + Cardinality(rows)
            /\ last' = [Handled("createOffer", "user", cred, g, productId, 201, "")
                          EXCEPT !.num = Len(offers) + 1]

\* mutant: every owner counts as the owner of the offer's product
ownsAnyOffer(offer, ownerId) == TRUE

\* offer.product.shop.ownerId === req.user.id
ownsOffer(offer, ownerId) == shopOwner(products[offer.productId].shopId) = ownerId

\* body("status").isIn(["pending", "accepted", "rejected"])
validateOfferStatus(status) == status \in {"pending", "accepted", "rejected"}

notifyOfferStatusChanged(offer, newStatus, fails) ==
    notifyUser(offer.userId,
               CASE newStatus = "pending" -> "Offer Pending"
                 [] newStatus = "accepted" -> "Offer Accepted"
                 [] OTHER -> "Offer Rejected",
               fails)

\* PUT /api/offers/:id/status
UpdateOfferStatus(cred, id, status, fails) ==
    LET g == authenticateOwner(cred) IN
    /\ UNCHANGED <<users, owners, approved, products, orders>>
    /\ UNCHANGED <<chats, messages, creating, passwords, verificationTokens, clock, resetDone>>
    /\ UNCHANGED <<placing, confirming, resetting>>
    /\ IF ~g.pass
       THEN /\ last' = Rejected("updateOfferStatus", "owner", cred, g)
            /\ UNCHANGED <<offers, notifications, nextNotif>>
       ELSE IF ~validateOfferStatus(status)
       THEN /\ last' = [HandledN("updateOfferStatus", "owner", cred, g, id, 400,
                                "Validation failed") EXCEPT !.value = status]
            /\ UNCHANGED <<offers, notifications, nextNotif>>
       ELSE IF id \notin 1..Len(offers)
       THEN /\ last' = [HandledN("updateOfferStatus", "owner", cred, g, id, 404,
                                "Offer not found") EXCEPT !.value = status]
            /\ UNCHANGED <<offers, notifications, nextNotif>>
       ELSE IF ~ownsOffer(offers[id], g.id)
       THEN /\ last' = [HandledN("updateOfferStatus", "owner", cred, g, id, 403,
                                "Access denied") EXCEPT !.value = status]
            /\ UNCHANGED <<offers, notifications, nextNotif>>
       ELSE LET rows == notifyOfferStatusChanged(offers[id], status, fails) IN
            /\ HasRoom(1)
            /\ offers' = [offers EXCEPT ![id].status = status]
            /\ notifications' = notifications \cup rows
            /\ nextNotif' = nextNotif + Cardinality(rows)
            /\ last' = [HandledN("updateOfferStatus", "owner", cred, g, id, 200, "")
                          EXCEPT !.value = status,
                                 !.recipients = {offers[id].userId},
                                 !.failed = {offers[id].userId} \cap fails]

\* ------------------------------------------------------------------ specifications
OrderIds == 1..MaxOrders

\* the gates: routes behind each gate, called with every credential
NextAuth ==
    \/ \E cred \in Credentials : GetMe(cred)
    \/ \E cred \in Credentials : DeleteUser(cred, "u2")
    \/ \E cred \in Credentials : DeleteOwner(cred, "w3")
    \/ \E cred \in Credentials : ToggleWishlist(cred, "p1")
    \/ \E cred \in Credentials, id \in {"p1", "p2"} : UpdateProduct(cred, id, 8, Undefined)
    \/ \E cred \in Credentials : CreateProduct(cred, "s1", 3, 1, <<"a1", "a2">>, {})
    \/ \E cred \in Credentials : UpdateOrderStatus(cred, 1, "shipped", {})
    \/ \E cred \in Credentials : OwnerDeleteNotification(cred, 1)

SpecAuth == Init /\ [][NextAuth]_vars


\* ------------------------------------------------------------------ claims: the gates
\* the credential a request presents (the cookie when there is one, else the
\* Authorization header)
Presented(cred) == IF cred.cookie # NoToken THEN cred.cookie ELSE cred.header

GatedKinds == {"any", "user", "owner", "admin"}

\* C1: behind every gate, a request with no token or with a token that fails
\* verification (malformed, tampered, expired) is answered 401, the handler
\* does not run and no row of the store is created, changed or deleted.
C1_NoCredentialNoMutation ==
    [][(last'.gate \in GatedKinds /\ Presented(last'.cred).state # "ok")
         => (last'.status = 401 /\ ~last'.ran /\ UNCHANGED <<store, nextNotif>>)]_vars

C1_Witness ==
    /\ last.op = "toggleWishlist"
    /\ last.cred.cookie.state = "tampered"
    /\ last.status = 401
    /\ \E u \in DOMAIN users : parseWishlist(users[u].wishlist) # <<>>

\* C25: when a request carries a token cookie, only the cookie's token is
\* used: with an invalid cookie token the request is rejected with 401
\* whatever the header holds, a handler that runs runs for the cookie's
\* identity, and the header's token decides only when there is no cookie
\* token.
C25_CookieBeforeHeader ==
    [][last'.gate \in GatedKinds =>
          LET cookie == last'.cred.cookie
              header == last'.cred.header
          IN
          /\ (cookie # NoToken /\ cookie.state # "ok") =>
                /\ last'.status = 401
                /\ last'.error = "Invalid or expired token"
                /\ ~last'.ran
                /\ UNCHANGED <<store, nextNotif>>
          /\ (cookie # NoToken /\ last'.ran) => last'.caller = cookie.id
          /\ (cookie = NoToken /\ last'.ran) => last'.caller = header.id
          /\ (cookie = NoToken /\ header # NoToken /\ header.state # "ok") =>
                last'.status = 401 /\ ~last'.ran]_vars

\* an admin route called with a malformed cookie and a valid admin token in
\* the header: 401, and the user it was to delete is still there
C25_Witness ==
    /\ last.op = "deleteUser"
    /\ last.cred.cookie = MalformedToken
    /\ last.cred.header = signToken("a1", "admin")
    /\ last.status = 401
    /\ ~last.ran
    /\ "u2" \in DOMAIN users

\* C2: behind the owner gate, a verifying owner token whose owner row has
\* approved = false gets 403 with code PENDING_APPROVAL and the handler does
\* not run.
C2_PendingOwnerRejected ==
    [][(/\ last'.gate = "owner"
        /\ Presented(last'.cred).state = "ok"
        /\ Presented(last'.cred).role = "owner"
        /\ Presented(last'.cred).id \in owners \ approved)
         => (/\ last'.status = 403
             /\ last'.code = "PENDING_APPROVAL"
             /\ ~last'.ran
             /\ UNCHANGED <<store, nextNotif>>)]_vars

C2_Witness ==
    /\ last.op = "updateProduct"
    /\ Presented(last.cred) = signToken("w2", "owner")
    /\ "w2" \in owners \ approved
    /\ last.code = "PENDING_APPROVAL"

\* C3: each role gate checks, in this order, token present, token valid, role,
\* account row, (owner) approved, and the first failing check decides the
\* response; an account row that is gone stays gone, so its token gets 401 on
\* every later request.
C3_Table(kind) ==
    CASE kind = "user" -> DOMAIN users
      [] kind = "owner" -> owners
      [] OTHER -> admins

C3_Expected(kind, t) ==
    IF t = NoToken THEN <<401, "Authentication required">>
    ELSE IF t.state # "ok" THEN <<401, "Invalid or expired token">>
    ELSE IF t.role # kind THEN <<403, "role">>
    ELSE IF t.id \notin C3_Table(kind) THEN <<401, "account">>
    ELSE IF kind = "owner" /\ t.id \notin approved THEN <<403, "Your account is pending approval.">>
    ELSE <<200, "">>

C3_GateOrder ==
    [][/\ last'.gate \in Roles =>
            LET want == C3_Expected(last'.gate, Presented(last'.cred)) IN
            IF want[1] = 200 THEN last'.ran
            ELSE /\ ~last'.ran
                 /\ last'.status = want[1]
                 /\ want[2] \in {"Authentication required", "Invalid or expired token",
                                 "Your account is pending approval."} => last'.error = want[2]
       /\ DOMAIN users' \subseteq DOMAIN users
       /\ owners' \subseteq owners]_vars

C3_Witness ==
    /\ last.gate = "user"
    /\ Presented(last.cred) = signToken("w3", "owner")
    /\ "w3" \notin owners
    /\ last.status = 403



\* ------------------------------------------------------------------ claims: order creation
\* requests for the first order of the store, by a user and by a client
\* without a credential, while the owner of shop s1 reprices one product and
\* sells out another
OrderCreds == {[cookie |-> signToken("u1", "user"), header |-> NoToken], NoCred}
OwnerFails == {{}, {"w1"}}
W1Cred == [cookie |-> signToken("w1", "owner"), header |-> NoToken]

NextOrders ==
    \/ \E cred \in OrderCreds, items \in ItemLists, fails \in OwnerFails :
           orders = <<>> /\ CreateOrder(cred, items, fails)
    \/ UpdateProduct(W1Cred, "p1", 8, Undefined)
    \/ UpdateProduct(W1Cred, "p3", Undefined, 0)

SpecOrders == Init /\ [][NextOrders]_vars

RECURSIVE C4_Sum(_)
C4_Sum(lines) ==
    IF lines = <<>> THEN 0
    ELSE Head(lines).price * Head(lines).quantity + C4_Sum(Tail(lines))

C4_Requested(lines, p) ==
    LET idx == {i \in 1..Len(lines) : lines[i].productId = p}
        RECURSIVE Sum(_)
        Sum(S) == IF S = {} THEN 0
                  ELSE LET i == CHOOSE i \in S : TRUE IN lines[i].quantity + Sum(S \ {i})
    IN Sum(idx)

C4_Owners(lines) == {shopOwner(products[lines[i].productId].shopId) : i \in 1..Len(lines)}

\* what a 201 of POST /api/orders did, given how many order-created rows
\* each owner is to have received
C4_Created(expected(_)) ==
    (last'.op = "createOrder" /\ last'.status = 201) =>
        LET o == orders'[Len(orders')]
            new == notifications' \ notifications
        IN
        /\ Len(orders') = Len(orders) + 1
        /\ \A i \in 1..Len(o.items) : o.items[i].price = products[o.items[i].productId].price
        /\ o.total = C4_Sum(o.items)
        /\ DOMAIN products' = DOMAIN products
        /\ \A p \in DOMAIN products :
               products'[p] = [products[p] EXCEPT !.stock = @ - C4_Requested(o.items, p)]
        /\ \A n \in new : n.kind = "owner" /\ n.title = "New Order Received"
        /\ \A w \in OwnerIds : Cardinality({n \in new : n.to = w}) = expected(w)

\* C4 (as stated): a successful order creation stores the total sum of
\* price x quantity, lowers each product's stock by the quantity requested
\* for it, and creates exactly one order-created notification for every
\* distinct shop owner among the items.
C4_OneNotificationPerOwner ==
    [][C4_Created(LAMBDA w : IF w \in C4_Owners(orders'[Len(orders')].items) THEN 1 ELSE 0)]_vars

\* C4 (amended): total and stock as stated; exactly one order-created
\* notification for every distinct shop owner among the items whose
\* notification write goes through, and none for an owner whose write fails
\* (the failure is swallowed and the order is still answered 201).
C4_OneNotificationPerReachedOwner ==
    [][C4_Created(LAMBDA w : IF w \in C4_Owners(orders'[Len(orders')].items) \ last'.failed
                             THEN 1 ELSE 0)]_vars

\* two lines of the same owner's shop, ordered after a price change
C4_Witness ==
    /\ last.op = "createOrder"
    /\ last.status = 201
    /\ LET o == orders[last.num] IN
       /\ Len(o.items) = 2
       /\ o.items[1].productId # o.items[2].productId
       /\ C4_Owners(o.items) = {"w1"}
       /\ o.total = 8 * o.items[1].quantity + 7
       /\ Cardinality(NotificationsOf("owner", "w1")) = 1

\* C5: an order-creation request with a line that names a missing product
\* (404) or asks for more than the stock (400) writes nothing, also when the
\* lines before it were valid; so an order that was created has only lines
\* that named an existing product with enough stock.
C5_RejectedOrderWritesNothing ==
    [][/\ (last'.op = "createOrder" /\ last'.ran /\ last'.status \in {400, 404})
            => UNCHANGED <<store, nextNotif>>
       /\ (last'.op = "createOrder" /\ <<store, nextNotif>>' # <<store, nextNotif>>)
            => /\ last'.status = 201
               /\ \A i \in 1..Len(orders'[Len(orders')].items) :
                    LET line == orders'[Len(orders')].items[i] IN
                    /\ line.productId \in DOMAIN products
                    /\ line.quantity <= products[line.productId].stock]_vars

C5_Witness ==
    /\ last.op = "createOrder"
    /\ last.status = 400
    /\ last.failIdx = 2
    /\ orders = <<>>
    /\ notifications = {}
    /\ \A p \in DOMAIN products : products[p].stock >= 1

\* C22: an order keeps the prices of the moment it was created: a later
\* update of a product's price by its owner leaves the stored total and the
\* stored per-item prices of every existing order unchanged, and the total
\* stays the sum over the stored lines.
C22_OrderKeepsCreationPrices ==
    [][(last'.op = "updateProduct" /\ last'.status = 200) =>
          /\ Len(orders') = Len(orders)
          /\ \A o \in 1..Len(orders) :
                /\ orders'[o].total = orders[o].total
                /\ orders'[o].total = C4_Sum(orders'[o].items)
                /\ Len(orders'[o].items) = Len(orders[o].items)
                /\ \A i \in 1..Len(orders[o].items) :
                      orders'[o].items[i].price = orders[o].items[i].price]_vars

\* an order placed at price 10 for p1, whose price its owner then set to 8
C22_Witness ==
    /\ last.op = "updateProduct"
    /\ last.status = 200
    /\ last.target = "p1"
    /\ products["p1"].price = 8
    /\ Len(orders) = 1
    /\ \E i \in 1..Len(orders[1].items) :
          /\ orders[1].items[i].productId = "p1"
          /\ orders[1].items[i].price = 10
    /\ orders[1].total = C4_Sum(orders[1].items)


\* ------------------------------------------------------------------ claims: order confirmation
\* orders of one line, of two lines of one owner's shop and of two owners'
\* shops; their order-created and status-changed notifications are not part
\* of these claims, so those writes are left out (they fail and are swallowed)
ConfirmItemLists ==
    {<<[productId |-> "p1", quantity |-> 1]>>,
     <<[productId |-> "p1", quantity |-> 1], [productId |-> "p3", quantity |-> 1]>>,
     <<[productId |-> "p1", quantity |-> 1], [productId |-> "p2", quantity |-> 1]>>}
U1Cred == [cookie |-> signToken("u1", "user"), header |-> NoToken]
U2Cred == [cookie |-> signToken("u2", "user"), header |-> NoToken]

NextConfirm ==
    \/ \E items \in ConfirmItemLists : CreateOrder(U1Cred, items, OwnerIds)
    \/ \E id \in OrderIds, status \in {"shipped", "delivered", "cancelled", "completed"} :
           UpdateOrderStatus(W1Cred, id, status, UserIds)
    \/ \E cred \in {U1Cred, U2Cred}, id \in OrderIds \cup {MaxOrders + 1},
          receiptNumber \in Receipts, now \in Times, fails \in {{}, {"w2"}} :
           ConfirmOrder(cred, id, receiptNumber, now, fails)

SpecConfirm == Init /\ [][NextConfirm]_vars

\* C6 (as stated): of two confirm requests in a row for the same order by
\* its user, when the first succeeds with a receipt the second fails with the
\* already-confirmed error carrying that same receipt.
C6_SecondConfirmAlreadyConfirmed ==
    [][(/\ last.op = "confirmOrder" /\ last.status = 200
        /\ last'.op = "confirmOrder" /\ last'.ran
        /\ last'.num = last.num /\ last'.caller = last.caller)
         => (/\ last'.status = 400
             /\ last'.error = "Order has already been confirmed"
             /\ last'.receiptNumber = last.receiptNumber)]_vars

\* C7: a confirm request by the order's user succeeds only from status
\* delivered; from any other status it is answered 400 and changes nothing
\* and creates no notification; a success sets status completed, stores the
\* receipt number and creates one order-completed notification per distinct
\* shop owner among the order's items.
C7_ConfirmOnlyDelivered ==
    [][(/\ last'.op = "confirmOrder" /\ last'.ran
        /\ last'.num \in 1..Len(orders)
        /\ orders[last'.num].userId = last'.caller)
         => LET id == last'.num
                new == notifications' \ notifications
            IN
            /\ orders[id].status # "delivered" =>
                   /\ last'.status = 400
                   /\ UNCHANGED <<store, nextNotif>>
            /\ last'.status = 200 =>
                   /\ orders[id].status = "delivered"
                   /\ orders'[id].status = "completed"
                   /\ orders'[id].receiptNumber \in Receipts
                   /\ orders'[id].receiptNumber = last'.receiptNumber
                   /\ orders'[id].completedAt \in Times
                   /\ \A n \in new : n.kind = "owner" /\ n.title = "Order Completed"
                   /\ \A w \in OwnerIds :
                        Cardinality({n \in new : n.to = w}) =
                            IF \E i \in 1..Len(orders[id].items) :
                                   ownerOfProduct(orders[id].items[i].productId) = w
                            THEN 1 ELSE 0]_vars

\* a confirmed order of two lines of the same owner's shop
C7_Witness ==
    /\ last.op = "confirmOrder"
    /\ last.status = 200
    /\ Len(orders[last.num].items) = 2
    /\ \A i \in 1..2 : ownerOfProduct(orders[last.num].items[i].productId) = "w1"
    /\ orders[last.num].status = "completed"
    /\ Cardinality({n \in notifications : n.title = "Order Completed"}) = 1


\* ------------------------------------------------------------------ claims: public routes
A1Cred == [cookie |-> signToken("a1", "admin"), header |-> NoToken]

\* the routes that ask for no credential, called with and without one, while
\* products are moderated and ordered
NextPublic ==
    \/ \E cred \in {NoCred, U1Cred}, shopId \in ShopIds \cup {"any"} : ListProducts(cred, shopId)
    \/ Bestsellers(NoCred)
    \/ \E id \in ProductIds : GetProduct(NoCred, id)
    \/ \E id \in ShopIds \cup {"s9"} : GetShop(NoCred, id)
    \/ \E cred \in {NoCred, U1Cred} : SeedData(cred)
    \/ \E id \in SeedProductIds : ApproveProduct(A1Cred, id, {})
    \/ \E id \in SeedProductIds : RejectProduct(A1Cred, id, {})
    \/ \E items \in ShortItemLists : CreateOrder(U1Cred, items, OwnerIds)

SpecPublic == Init /\ [][NextPublic]_vars

\* C8 (as stated): whatever a route reachable without a credential returns,
\* every product in the response has status approved.
C8_PublicOnlyApproved ==
    last.gate = "none" => \A p \in last.products : products[p].status = "approved"

\* ------------------------------------------------------------------ claims: notification routes
W2Cred == [cookie |-> signToken("w2", "owner"), header |-> NoToken]
A2Cred == [cookie |-> signToken("a2", "admin"), header |-> NoToken]

\* notifications for a user, for an owner and for an admin come into being,
\* and the two accounts of each role ask that role's routes for each of them
NextNotif ==
    \/ CreateOrder(U1Cred, <<[productId |-> "p1", quantity |-> 1]>>, OwnerIds)
    \/ UpdateOrderStatus(W1Cred, 1, "shipped", {})
    \/ ApproveOwner(A1Cred, "w2", {})
    \/ CreateProduct(W1Cred, "s1", 3, 1, <<"a1", "a2">>, {"a2"})
    \/ \E cred \in {U1Cred, U2Cred}, id \in NotifIds : UserMarkRead(cred, id)
    \/ \E cred \in {U1Cred, U2Cred}, id \in NotifIds : UserDeleteNotification(cred, id)
    \/ \E cred \in {W1Cred, W2Cred}, id \in NotifIds : OwnerMarkRead(cred, id)
    \/ \E cred \in {W1Cred, W2Cred}, id \in NotifIds : OwnerDeleteNotification(cred, id)
    \/ \E cred \in {A1Cred, A2Cred}, id \in NotifIds : AdminMarkRead(cred, id)
    \/ \E cred \in {A1Cred, A2Cred}, id \in NotifIds : AdminDeleteNotification(cred, id)

SpecNotif == Init /\ [][NextNotif]_vars

\* C9: on the user, owner and admin notification routes, a mark-read or a
\* delete of an existing notification that is not addressed to the
\* authenticated account is answered 403, and the notification is still there
\* with its read flag as it was.
C9_ForeignNotificationUntouched ==
    [][(/\ last'.op \in {"markRead", "deleteNotification"}
        /\ last'.ran
        /\ \E n \in notifications :
              n.id = last'.num /\ ~(n.kind = last'.gate /\ n.to = last'.caller))
         => (/\ last'.status = 403
             /\ notifications' = notifications)]_vars

\* an approved owner asks to delete a notification of another owner
C9_Witness ==
    /\ last.op = "deleteNotification"
    /\ last.gate = "owner"
    /\ last.status = 403
    /\ \E n \in notifications :
          n.id = last.num /\ n.kind = "owner" /\ n.to # last.caller /\ ~n.isRead

\* ------------------------------------------------------------------ claims: fan-out
\* every handler of the model that writes notifications after its mutation,
\* with and without failing notification writes
NextFanout ==
    \/ \E fails \in {{}, OwnerIds} :
           CreateOrder(U1Cred, <<[productId |-> "p1", quantity |-> 1]>>, fails)
    \/ \E fails \in {{}, UserIds} : UpdateOrderStatus(W1Cred, 1, "delivered", fails)
    \/ \E fails \in {{}, OwnerIds} : ConfirmOrder(U1Cred, 1, "RCP-A", 1, fails)
    \/ \E adminOrder \in AdminOrders, fails \in {{}, {"a1"}} :
           CreateProduct(W1Cred, "s1", 3, 1, adminOrder, fails)
    \/ \E fails \in {{}, OwnerIds} : ApproveProduct(A1Cred, "p2", fails)
    \/ \E fails \in {{}, OwnerIds} : RejectProduct(A1Cred, "p1", fails)
    \/ \E fails \in {{}, OwnerIds} : ApproveOwner(A1Cred, "w2", fails)

SpecFanout == Init /\ [][NextFanout]_vars

\* the mutation a handler answers for is in the store
C10_Persisted ==
    CASE last'.op = "createOrder" -> Len(orders') = Len(orders) + 1
      [] last'.op = "updateOrderStatus" -> orders'[last'.num].status = "delivered"
      [] last'.op = "confirmOrder" -> orders'[last'.num].status = "completed"
      [] last'.op = "createProduct" -> last'.target \in DOMAIN products' \ DOMAIN products
      [] last'.op = "approveProduct" -> products'[last'.target].status = "approved"
      [] last'.op = "rejectProduct" -> products'[last'.target].status = "rejected"
      [] last'.op = "approveOwner" -> last'.target \in approved'
      [] OTHER -> TRUE

\* C10 (as stated): in every handler that writes notifications after its
\* mutation, when a notification write fails the handler still answers with
\* its success status and the mutation stays in the store.
C10_FanoutBestEffort ==
    [][last'.failed # {} => (last'.status \in {200, 201} /\ C10_Persisted)]_vars


\* ------------------------------------------------------------------ claims: order status
\* the values of the order lifecycle
LifecycleStatuses == {"pending", "processing", "shipped", "delivered", "completed", "cancelled"}

\* an order of u1 is created, owner w2 is approved, and the two approved
\* owners and the two users ask for status updates, cancellation and
\* confirmation; the notifications are not part of these claims, so their
\* writes are left out (they fail and are swallowed)
NextStatus ==
    \/ \E items \in ConfirmItemLists : CreateOrder(U1Cred, items, OwnerIds)
    \/ ApproveOwner(A1Cred, "w2", OwnerIds)
    \/ \E cred \in {W1Cred, W2Cred}, id \in OrderIds, status \in LifecycleStatuses :
           UpdateOrderStatus(cred, id, status, UserIds)
    \/ \E id \in OrderIds : ConfirmOrder(U1Cred, id, "RCP-A", 1, {})
    \/ \E cred \in {U1Cred, U2Cred}, id \in OrderIds : CancelOrder(cred, id)

SpecStatus == Init /\ [][NextStatus]_vars

\* the same order and owners, with status updates whose notification write
\* goes through or fails
NextStatusNotify ==
    \/ \E items \in ConfirmItemLists : CreateOrder(U1Cred, items, OwnerIds)
    \/ ApproveOwner(A1Cred, "w2", OwnerIds)
    \/ \E cred \in {W1Cred, W2Cred}, id \in OrderIds, status \in {"shipped", "cancelled"},
          fails \in {{}, UserIds} : UpdateOrderStatus(cred, id, status, fails)

SpecStatusNotify == Init /\ [][NextStatusNotify]_vars

\* the owner supplies at least one item of the order
SuppliesItem(order, ownerId) ==
    \E i \in 1..Len(order.items) :
        shopOwner(products[order.items[i].productId].shopId) = ownerId

\* what a status request with a valid value did, given how many
\* status-changed rows the order's user is to have received
C11_Update(expected) ==
    (/\ last'.op = "updateOrderStatus" /\ last'.ran
     /\ last'.num \in 1..Len(orders)
     /\ last'.value \in LifecycleStatuses \ {"completed"})
      => LET id == last'.num
             new == notifications' \ notifications
         IN
         /\ ~SuppliesItem(orders[id], last'.caller) =>
                (last'.status = 403 /\ UNCHANGED <<store, nextNotif>>)
         /\ last'.status = 200 =>
                /\ SuppliesItem(orders[id], last'.caller)
                /\ orders'[id].status = last'.value
                /\ \A n \in new : n.kind = "user" /\ n.to = orders[id].userId
                /\ Cardinality(new) = expected

\* C11 (as stated): an owner's status update is applied only when the owner
\* supplies an item of the order, otherwise 403 with the order unchanged and
\* no notification; when applied, exactly one status-changed notification
\* for the order's user is created.
C11_OneStatusNotification ==
    [][C11_Update(1)]_vars

\* C11 (amended): as stated, but the applied update creates the one
\* notification only if its write goes through; when the write fails the
\* update is still applied and answered 200 and no notification is created.
C11_OneStatusNotificationIfWritten ==
    [][C11_Update(IF last'.failed = {} THEN 1 ELSE 0)]_vars

\* owner w2, approved, supplies no item of the order and is refused
C11_Witness ==
    /\ last.op = "updateOrderStatus"
    /\ last.caller = "w2"
    /\ last.status = 403
    /\ last.num \in 1..Len(orders)
    /\ ~SuppliesItem(orders[last.num], "w2")
    /\ orders[last.num].status = "pending"

\* what a status request of an owner who supplies an item did, `accepted`
\* being the values the handler is to take
C12_Request(accepted) ==
    (/\ last'.op = "updateOrderStatus" /\ last'.ran
     /\ last'.num \in 1..Len(orders)
     /\ SuppliesItem(orders[last'.num], last'.caller))
      => IF last'.value \in accepted
         THEN last'.status = 200 /\ orders'[last'.num].status = last'.value
         ELSE last'.status = 400 /\ UNCHANGED <<store, nextNotif>>

\* C12 (as stated): from every current status, a supplying owner's request
\* to set any value of the lifecycle, completed included, is accepted and
\* the order ends in that status.
C12_AnyLifecycleValueAccepted ==
    [][C12_Request(LifecycleStatuses)]_vars

\* C12 (amended): from every current status, completed and cancelled
\* included, a supplying owner's request to set pending, processing, shipped,
\* delivered or cancelled is accepted and the order ends in that status; a
\* request to set completed is answered 400 and changes nothing.
C12_AnyListedValueAccepted ==
    [][C12_Request(LifecycleStatuses \ {"completed"})]_vars

\* an order that was confirmed (it has its receipt) is back to pending
C12_Witness ==
    /\ last.op = "updateOrderStatus"
    /\ last.status = 200
    /\ last.value = "pending"
    /\ orders[last.num].status = "pending"
    /\ orders[last.num].receiptNumber # NoReceipt

\* C13: a cancel request changes an order only when the requester is the
\* order's user and the status is pending, and then the status becomes
\* cancelled; another user gets 403, a non-pending order gets 400, and in
\* both cases the order is unchanged.
C13_CancelOnlyOwnPending ==
    [][(last'.op = "cancelOrder" /\ last'.ran /\ last'.num \in 1..Len(orders))
         => LET id == last'.num IN
            /\ UNCHANGED <<users, owners, approved, products, notifications, nextNotif>>
            /\ IF orders[id].userId # last'.caller
               THEN last'.status = 403 /\ orders' = orders
               ELSE IF orders[id].status # "pending"
               THEN last'.status = 400 /\ orders' = orders
               ELSE /\ last'.status = 200
                    /\ orders' = [orders EXCEPT ![id].status = "cancelled"]]_vars

\* the order's user asks to cancel a shipped order
C13_Witness ==
    /\ last.op = "cancelOrder"
    /\ last.status = 400
    /\ orders[last.num].userId = last.caller
    /\ orders[last.num].status = "shipped"


\* ------------------------------------------------------------------ claims: products
\* owner w2 is approved; the two approved owners create, update and delete
\* products in both shops, and an admin approves and rejects them
NextProducts ==
    \/ ApproveOwner(A1Cred, "w2", OwnerIds)
    \/ \E cred \in {W1Cred, W2Cred}, shopId \in ShopIds :
           CreateProduct(cred, shopId, 3, 1, <<"a1", "a2">>, AdminIds)
    \/ \E cred \in {W1Cred, W2Cred}, id \in {"p1", "p2"} : UpdateProduct(cred, id, 8, Undefined)
    \/ \E cred \in {W1Cred, W2Cred}, id \in {"p2", "p3", "p4"} : DeleteProduct(cred, id)
    \/ \E id \in {"p2", "p3"} : ApproveProduct(A1Cred, id, {})
    \/ \E id \in {"p2", "p3"} : RejectProduct(A1Cred, id, {})

SpecProducts == Init /\ [][NextProducts]_vars

\* C14 (as stated): a product's status changes only through the admin
\* approve and reject actions and only from pending; a created product is
\* pending; an approve or reject of a product that is already approved or
\* rejected leaves its status alone; each applied approve or reject creates
\* one notification addressed to the owner of the product's shop.
C14_ModerationOnlyFromPending ==
    [][/\ \A p \in DOMAIN products' \ DOMAIN products : products'[p].status = "pending"
       /\ \A p \in DOMAIN products \cap DOMAIN products' :
            products'[p].status # products[p].status =>
                /\ last'.op \in {"approveProduct", "rejectProduct"}
                /\ last'.target = p
                /\ products[p].status = "pending"
                /\ \E n \in notifications' \ notifications :
                      /\ n.kind = "owner" /\ n.to = shopOwner(products[p].shopId)
                      /\ notifications' = notifications \cup {n}]_vars

\* C15: a product creation in a shop, a product update and a product
\* deletion are applied only when the authenticated owner owns the
\* (product's) shop; any other owner gets 403 and no product is created,
\* changed or deleted.
C15_OnlyShopOwnerChangesProducts ==
    [][(last'.op \in {"createProduct", "updateProduct", "deleteProduct"} /\ last'.ran)
         => /\ (/\ last'.op = "createProduct"
                /\ last'.target \in ShopIds
                /\ shopOwner(last'.target) # last'.caller)
                 => (last'.status = 403 /\ products' = products)
            /\ (/\ last'.op \in {"updateProduct", "deleteProduct"}
                /\ last'.target \in DOMAIN products
                /\ shopOwner(products[last'.target].shopId) # last'.caller)
                 => (last'.status = 403 /\ products' = products)
            /\ \A p \in DOMAIN products \ DOMAIN products' :
                   shopOwner(products[p].shopId) = last'.caller
            /\ \A p \in DOMAIN products' :
                   (p \notin DOMAIN products \/ products'[p] # products[p])
                       => shopOwner(products'[p].shopId) = last'.caller]_vars

\* approved owner w2 asks to delete a product of w1's shop
C15_Witness ==
    /\ last.op = "deleteProduct"
    /\ last.caller = "w2"
    /\ last.status = 403
    /\ last.target \in DOMAIN products
    /\ shopOwner(products[last.target].shopId) = "w1"

\* ------------------------------------------------------------------ chats
\* one order of u1 with an item of each shop (or of w1's shop only); both
\* users and both shop owners call every chat route
ChatItemLists ==
    {<<[productId |-> "p1", quantity |-> 1], [productId |-> "p2", quantity |-> 1]>>,
     <<[productId |-> "p1", quantity |-> 1]>>}
ChatIds == 1..MaxOrders
ChatKinds == {"user", "owner"}
ChatCreds(kind) == IF kind = "user" THEN {U1Cred, U2Cred} ELSE {W1Cred, W2Cred}

NextChat ==
    \/ \E items \in ChatItemLists : CreateOrder(U1Cred, items, OwnerIds)
    \/ ApproveOwner(A1Cred, "w2", OwnerIds)
    \/ \E cred \in ChatCreds("user"), orderId \in OrderIds : UserChatOfOrder(cred, orderId)
    \/ \E cred \in ChatCreds("owner"), orderId \in OrderIds : OwnerChatOfOrder(cred, orderId)
    \/ \E req \in creating : CreateChat(req)
    \/ \E kind \in ChatKinds : \E cred \in ChatCreds(kind) : ListChats(kind, cred)
    \/ \E kind \in ChatKinds : \E cred \in ChatCreds(kind), id \in ChatIds : GetMessages(kind, cred, id)
    \/ \E kind \in ChatKinds : \E cred \in ChatCreds(kind), id \in ChatIds, content \in {"", "hello"} :
           SendMessage(kind, cred, id, content)
    \/ \E kind \in ChatKinds : \E cred \in ChatCreds(kind) : UnreadCount(kind, cred)

SpecChat == Init /\ [][NextChat]_vars

ChatOps == {"listChats", "chatOfOrder", "getMessages", "sendMessage", "unreadCount"}
MessagesOf(chatId) == {i \in 1..Len(messages) : messages[i].chatId = chatId}

\* C16: a chat route called by an account that is neither the userId nor the
\* ownerId of a chat returns no data of that chat, creates no message in it
\* and changes no read flag in it, also when the caller is an owner who
\* supplies another item of the chat's order
C16_ChatOnlyForParticipants ==
    [][\A c \in chats' :
          (last'.op \in ChatOps /\ last'.caller \notin {c.userId, c.ownerId}) =>
              /\ c.id \notin last'.chats
              /\ Len(messages') = Len(messages) \/ messages'[Len(messages')].chatId # c.id
              /\ \A i \in MessagesOf(c.id) : messages'[i] = messages[i]]_vars

\* the get-or-create requests of the order's user and of both shop owners,
\* interleaved at the await between findUnique and create
NextChatRace ==
    \/ \E items \in ChatItemLists : CreateOrder(U1Cred, items, OwnerIds)
    \/ ApproveOwner(A1Cred, "w2", OwnerIds)
    \/ \E orderId \in OrderIds : UserChatOfOrder(U1Cred, orderId)
    \/ \E cred \in ChatCreds("owner"), orderId \in OrderIds : OwnerChatOfOrder(cred, orderId)
    \/ \E req \in creating : CreateChat(req)

SpecChatRace == Init /\ [][NextChatRace]_vars

\* C17: whatever the interleaving of the get-or-create requests, an order has
\* at most one chat, the chat's userId is the order's user and its ownerId is
\* the owner of a shop that supplies an item of the order
C17_OneChatPerOrder ==
    /\ \A c, d \in chats : c.orderId = d.orderId => c = d
    /\ \A c \in chats :
          /\ c.orderId \in 1..Len(orders)
          /\ c.userId = orders[c.orderId].userId
          /\ SuppliesItem(orders[c.orderId], c.ownerId)

\* two requests found no chat, one created it and the other one's create was
\* refused
C17_Witness ==
    /\ chats # {}
    /\ last.op = "chatOfOrder"
    /\ last.status = 400
    /\ last.error = "A record with this value already exists"
    /\ \E c \in chats : c.orderId = last.num /\ last.caller \in {c.userId, c.ownerId}

\* ------------------------------------------------------------------ error handler
NextErrors == \E err \in Errors : FailingRequest(err)

SpecErrors == Init /\ [][NextErrors]_vars

Recognized(err) ==
    \/ err.code \in {"P2002", "P2025"}
    \/ err.name \in {"ValidationError", "JsonWebTokenError", "TokenExpiredError"}

\* C20: an error that reaches the error handler and has none of the
\* recognized shapes is answered 500 with the generic body, which holds
\* nothing of the error's message
C20_UnrecognizedIsGeneric500 ==
    (last.op = "failingRequest" /\ ~Recognized(last.thrown)) =>
        /\ last.status = 500
        /\ last.error = "Internal server error"

\* ------------------------------------------------------------------ password reset
\* the details of u1, the same with other capitals, a word of w1's business
\* name with w1's phone, and details that match nobody
VerifyDetails ==
    {[firstName |-> "JOHN", lastName |-> "Doe", contactNumber |-> "+1234567890"],
     [firstName |-> "Tech", lastName |-> "Shop", contactNumber |-> "+1234567890"],
     [firstName |-> "John", lastName |-> "Doe", contactNumber |-> "+1999999999"],
     [firstName |-> "", lastName |-> "Doe", contactNumber |-> "+1234567890"]}
\* the tokens a client can present: those the verify route issues for u1
\* before the first token expires, the first one of w1, and an empty one
ResetTokens ==
    {verificationToken("u1", "user", t) : t \in 0..(TokenLifetime - 1)}
        \cup {verificationToken("w1", "owner", 0), NoVerification}
NewPasswords == {"secret456", "hunter22"}
\* the account a reset request names: u1, w1, and w1 taken for a user
ResetAccounts == {<<"user", "u1">>, <<"owner", "w1">>, <<"user", "w1">>}

NextReset ==
    \/ Tick
    \/ \E accountType \in {"user", "admin"}, email \in {"u1", "w4"}, details \in VerifyDetails :
           clock < TokenLifetime /\ ForgotPasswordVerify(accountType, email, details)
    \/ \E details \in VerifyDetails : clock = 0 /\ ForgotPasswordVerify("owner", "w1", details)
    \/ \E account \in ResetAccounts, token \in ResetTokens,
          newPassword \in NewPasswords, confirmPassword \in NewPasswords :
           ForgotPasswordReset(account[1], account[2], token, newPassword, confirmPassword)

SpecReset == Init /\ [][NextReset]_vars

\* a step that answered a reset request
C18_ResetStep == last' # last /\ last'.op = "forgotPasswordReset"

\* a reset with a token that a reset already succeeded with
C18_SingleUse ==
    (C18_ResetStep /\ last'.verificationToken \in resetDone) =>
        /\ last'.status = 400
        /\ passwords' = passwords

\* a reset with a stored token, presented more than TokenLifetime after the
\* token was issued; `wellFormed` says which of these requests are meant
C18_Expiry(wellFormed) ==
    (/\ C18_ResetStep
     /\ last'.verificationToken \in DOMAIN verificationTokens
     /\ clock > last'.verificationToken.timestamp + TokenLifetime
     /\ wellFormed) =>
        /\ last'.status = 400
        /\ passwords' = passwords
        /\ last'.verificationToken \notin DOMAIN verificationTokens'

\* C18 as stated: a used token is refused with 400 and changes no password;
\* every reset presented more than 15 minutes after the token was issued is
\* refused with 400, changes no password and removes the token from the map
C18_SingleUseAndExpiry ==
    [][C18_SingleUse /\ C18_Expiry(TRUE)]_vars

\* C18, amended: the expired token is removed by the requests that reach the
\* expiry check, those that pass validation with matching passwords
C18_SingleUseAndDetectedExpiry ==
    [][/\ C18_SingleUse
       /\ C18_Expiry(/\ last'.value \in AccountTypes
                     /\ Len(last'.password) >= 6
                     /\ last'.confirmPassword = last'.password)]_vars

\* a reset succeeded earlier, and now an expired token was presented, refused
\* and removed
C18_Witness ==
    /\ resetDone # {}
    /\ last.op = "forgotPasswordReset"
    /\ last.status = 400
    /\ last.error = "Verification token has expired. Please verify your identity again."
    /\ clock > last.verificationToken.timestamp + TokenLifetime
    /\ last.verificationToken \notin DOMAIN verificationTokens

\* ------------------------------------------------------------------ owner tokens
NextOwnerAuth ==
    \/ \E email \in {"w3", "w4"}, password \in {"secret456", "abc"} : RegisterOwner(email, password)
    \/ \E email \in {"w1", "w3", "w4"}, password \in {"password123", "secret456", ""} :
           LoginOwner(email, password)
    \/ \E id \in {"w3", "w4"} : ApproveOwner(A1Cred, id, Emails)
    \/ \E id \in {"w3", "w4"} : DeleteOwner(A1Cred, id)

SpecOwnerAuth == Init /\ [][NextOwnerAuth]_vars

\* C19: every owner token a response carries is for an approved owner;
\* registration issues a token only when the created row is approved; a login
\* with the right password for an unapproved owner is answered 403
\* PENDING_APPROVAL without a token; and the approved flag of an owner turns
\* true only in a successful admin approve of that owner
C19_NoTokenForUnapprovedOwner ==
    [][/\ (last' # last /\ last'.token # NoToken /\ last'.token.role = "owner") =>
              /\ last'.token.id \in approved'
              /\ last'.token.id = last'.target
       /\ (/\ last' # last
           /\ last'.op = "loginOwner"
           /\ last'.target \in owners \ approved
           /\ passwords[last'.target] = <<"bcrypt", last'.password>>) =>
              /\ last'.status = 403
              /\ last'.code = "PENDING_APPROVAL"
              /\ last'.token = NoToken
       /\ \A o \in approved' \ approved :
              /\ last'.op = "approveOwner"
              /\ last'.status = 200
              /\ last'.target = o]_vars

\* the owner registered as w4 logs in with the right password before any
\* admin approved the account
C19_Witness ==
    /\ last.op = "loginOwner"
    /\ last.target = "w4"
    /\ "w4" \in owners \ approved
    /\ passwords["w4"] = <<"bcrypt", last.password>>
    /\ last.status = 403
    /\ last.code = "PENDING_APPROVAL"
\* ------------------------------------------------------------------ claims: product creation
\* C26: a product creation answered 201 has stored the product with status
\* pending and has created exactly one pending-approval notification per
\* admin row, each addressed to that admin only.
C26_CreatedProductNotifiesEachAdmin ==
    [][(last'.op = "createProduct" /\ last'.status = 201) =>
          LET new == notifications' \ notifications IN
          /\ DOMAIN products' \ DOMAIN products = {last'.target}
          /\ products'[last'.target].status = "pending"
          /\ \A p \in DOMAIN products : products'[p] = products[p]
          /\ notifications \subseteq notifications'
          /\ Cardinality(new) = Cardinality(admins)
          /\ \A n \in new : n.kind = "admin" /\ n.title = "New Product Pending Approval"
          /\ \A a \in admins : Cardinality({n \in new : n.to = a}) = 1]_vars

\* product p4 was created and each of the two admins has its notification
C26_Witness ==
    /\ last.op = "createProduct"
    /\ last.status = 201
    /\ last.target = "p4"
    /\ products["p4"].status = "pending"
    /\ \A a \in admins :
          \E n \in NotificationsOf("admin", a) : n.title = "New Product Pending Approval"

\* ------------------------------------------------------------------ claims: the wishlist
WishlistIds == {"p1", "p2", "p3"}

\* two users toggle three product ids in any order
NextWishlist ==
    \E cred \in {U1Cred, U2Cred, NoCred}, productId \in WishlistIds :
        ToggleWishlist(cred, productId)

SpecWishlist == Init /\ [][NextWishlist]_vars

toggledTwice(wishlist, productId) ==
    toggleWishlist(toggleWishlist(wishlist, productId), productId)

\* C21 as stated, the wishlist being the ordered collection the route stores:
\* toggling the same product id twice on any user's wishlist gives back the
\* wishlist it started from, whether or not the id was in it.
C21_ToggleTwiceRestoresList ==
    \A u \in DOMAIN users, productId \in WishlistIds :
        LET w == parseWishlist(users[u].wishlist) IN
        toggledTwice(w, productId) = w

\* C21, amended: toggling the same product id twice gives back the same set
\* of ids; the list itself comes back when the id was absent at the start,
\* and an id that was present ends up last.
C21_ToggleTwiceRestoresMembers ==
    \A u \in DOMAIN users, productId \in WishlistIds :
        LET w == parseWishlist(users[u].wishlist)
            w2 == toggledTwice(w, productId)
        IN
        /\ Range(w2) = Range(w)
        /\ Len(w2) = Len(w)
        /\ productId \notin Range(w) => w2 = w
        /\ productId \in Range(w) => w2[Len(w2)] = productId

\* a toggle of p1 has put it behind p2 in the caller's stored list, so the
\* next two toggles of p2 will move p2 behind p1
C21_Witness ==
    /\ last.op = "toggleWishlist"
    /\ last.status = 200
    /\ last.target = "p1"
    /\ last.wishlist = <<"p2", "p1">>
    /\ parseWishlist(users[last.caller].wishlist) = <<"p2", "p1">>


\* ------------------------------------------------------------------ claims: clear-all
Segments == {LiteralSegment("clear-all")} \cup {IdSegment(id) : id \in NotifIds}

\* one order of u1 whose status changes put notifications in u1's list next
\* to the owner's, then DELETE requests of both users
NextClearAll ==
    \/ orders = <<>> /\ CreateOrder(U1Cred, <<[productId |-> "p1", quantity |-> 1]>>, {})
    \/ \E status \in {"processing", "shipped"} : UpdateOrderStatus(W1Cred, 1, status, {})
    \/ \E cred \in {U1Cred, U2Cred, NoCred}, segment \in Segments :
           UserNotificationsDelete(cred, segment)

SpecClearAll == Init /\ [][NextClearAll]_vars

\* C23: DELETE /api/notifications/clear-all by an authenticated user deletes
\* every notification addressed to that user, no notification addressed to
\* anyone else, and answers 200 with the cleared message.
C23_ClearAllDeletesOwnRows ==
    [][(last'.op = "DELETE /api/notifications/clear-all" /\ last'.ran) =>
          /\ last'.status = 200
          /\ last'.value = "All notifications cleared"
          /\ notifications' = notifications \ NotificationsOf("user", last'.caller)]_vars

\* ------------------------------------------------------------------ claims: offers
OfferStatuses == {"pending", "accepted", "rejected", "completed"}

\* offers on the Buying product of shop s1 (the owner's offer-received
\* notification is not written), two approved owners
NextOffers ==
    \/ \E productId \in {"p1", "p3"} : CreateOffer(U1Cred, productId, {"w1"})
    \/ offers = <<>> /\ CreateOffer(U2Cred, "p3", {"w1"})
    \/ ApproveOwner(A1Cred, "w2", {"w2"})
    \/ \E cred \in {W1Cred, W2Cred}, id \in 1..MaxOffers, status \in OfferStatuses,
          fails \in {{}, UserIds} :
           UpdateOfferStatus(cred, id, status, fails)

SpecOffers == Init /\ [][NextOffers]_vars

\* what a status update request on an existing offer with an enumerated
\* status does, given how many notifications an applied update creates
C24_Update(expected) ==
    (/\ last'.op = "updateOfferStatus"
     /\ last'.ran
     /\ last'.num \in 1..Len(offers)
     /\ validateOfferStatus(last'.value)) =>
        LET offer == offers[last'.num]
            new == notifications' \ notifications
        IN
        IF shopOwner(products[offer.productId].shopId) = last'.caller
        THEN /\ last'.status = 200
             /\ offers' = [offers EXCEPT ![last'.num].status = last'.value]
             /\ Cardinality(new) = expected
             /\ \A n \in new : n.kind = "user" /\ n.to = offer.userId
             /\ notifications \subseteq notifications'
        ELSE /\ last'.status = 403
             /\ UNCHANGED <<offers, notifications>>

\* C24 as stated: an offer status update is applied only for the owner of
\* the shop of the offer's product (403 and no change otherwise); applied,
\* it takes pending, accepted or rejected from any current status and
\* creates exactly one notification addressed to the offering user.
C24_AppliedUpdateNotifiesOnce ==
    [][C24_Update(1)]_vars

\* C24, amended: as stated, except that the notification is created only
\* when its write goes through; a failed write is swallowed, the update is
\* still applied and answered 200, and no notification exists.
C24_AppliedUpdateNotifiesIfWritten ==
    [][C24_Update(IF last'.failed = {} THEN 1 ELSE 0)]_vars

\* an accepted offer of u1 was set back to pending by the owner of the shop
C24_Witness ==
    /\ last.op = "updateOfferStatus"
    /\ last.status = 200
    /\ last.value = "pending"
    /\ offers[1].status = "pending"
    /\ \E n \in NotificationsOf("user", offers[1].userId) : n.title = "Offer Accepted"
    /\ \E n \in NotificationsOf("user", offers[1].userId) : n.title = "Offer Pending"

\* ------------------------------------------------------------------ claims: stock
StockItemLists ==
    UNION {[1..n -> [productId : {"p1", "p3"}, quantity : 1..MaxQty]] : n \in 1..MaxItems}

\* order requests of two users for the products of shop s1, each handled in
\* one piece or split at the await between its stock checks and its writes
NextStock ==
    \/ \E cred \in {U1Cred, U2Cred}, items \in StockItemLists :
           orders = <<>> /\ CreateOrder(cred, items, OwnerIds)
    \/ \E cred \in {U1Cred, U2Cred}, items \in StockItemLists :
           Cardinality(placing) < MaxPlaced /\ BeginOrder(cred, items)
    \/ \E req \in placing : FinishOrder(req, OwnerIds)

SpecStock == Init /\ [][NextStock]_vars

\* C27: after any sequence or interleaving of order-creation requests, every
\* product's stock is greater than or equal to zero.
C27_StockNeverNegative ==
    \A p \in DOMAIN products : products[p].stock >= 0

\* ------------------------------------------------------------------ claims: the receipt number
\* one order of u1, the owner's status updates, and confirm requests of u1
\* handled in one piece or split at the await between the checks and the
\* update
NextReceipt ==
    \/ orders = <<>> /\ CreateOrder(U1Cred, <<[productId |-> "p1", quantity |-> 1]>>, OwnerIds)
    \/ \E status \in {"delivered", "shipped", "completed"} :
           UpdateOrderStatus(W1Cred, 1, status, UserIds)
    \/ \E receiptNumber \in Receipts, now \in Times :
           ConfirmOrder(U1Cred, 1, receiptNumber, now, {})
    \/ \E n \in 1..2 : BeginConfirm(U1Cred, 1, n)
    \/ \E req \in confirming, receiptNumber \in Receipts, now \in Times :
           FinishConfirm(req, receiptNumber, now, {})

SpecReceipt == Init /\ [][NextReceipt]_vars

\* C28: once an order has a receipt number, no later request changes it,
\* under any interleaving of confirm requests for the order and of owner
\* status updates.
C28_ReceiptNumberIsFinal ==
    [][\A id \in 1..Len(orders) :
          orders[id].receiptNumber # NoReceipt =>
              orders'[id].receiptNumber = orders[id].receiptNumber]_vars

\* C29: an order whose status is completed has a receipt number and a
\* completedAt value; status completed is set only by the user's confirm
\* request, which writes the three together, and by no other request.
C29_CompletedOnlyByConfirm ==
    [][\A id \in 1..Len(orders') :
          orders'[id].status = "completed" =>
              /\ orders'[id].receiptNumber # NoReceipt
              /\ orders'[id].completedAt # NoTime
              /\ \/ id \in 1..Len(orders) /\ orders[id].status = "completed"
                 \/ last'.op = "confirmOrder" /\ last'.num = id]_vars

\* the owner asked for status completed on a completed order and got 400;
\* the order is as the confirm left it
C29_Witness ==
    /\ last.op = "updateOrderStatus"
    /\ last.value = "completed"
    /\ last.status = 400
    /\ Len(orders) = 1
    /\ orders[1].status = "completed"
    /\ orders[1].receiptNumber \in Receipts
    /\ orders[1].completedAt \in Times

\* ------------------------------------------------------------------ claims: concurrent resets
\* u1 verifies once and sends reset requests with the issued token, handled
\* in one piece or split at the await of the hash
NextResetRace ==
    \/ clock = 0 /\ ForgotPasswordVerify("user", "u1", [firstName |-> "John", lastName |-> "Doe",
                                                        contactNumber |-> "+1234567890"])
    \/ \E newPassword \in NewPasswords, confirmPassword \in NewPasswords :
           ForgotPasswordReset("user", "u1", verificationToken("u1", "user", 0),
                               newPassword, confirmPassword)
    \/ \E newPassword \in NewPasswords, confirmPassword \in NewPasswords, n \in 1..2 :
           BeginReset("user", "u1", verificationToken("u1", "user", 0),
                      newPassword, confirmPassword, n)
    \/ \E req \in resetting : FinishReset(req)

SpecResetRace == Init /\ [][NextResetRace]_vars

\* C30: of the password-reset requests that carry the same verification
\* token, however they interleave, at most one responds with success and
\* changes the password: no request succeeds with a token a request has
\* succeeded with before.
C30_OneSuccessPerToken ==
    [][(/\ last'.op = "forgotPasswordReset"
        /\ last'.status = 200
        /\ resetDone' # resetDone \/ passwords' # passwords \/ last' # last)
       => last'.verificationToken \notin resetDone]_vars

====
